---------------------------- MODULE Spec2Model ----------------------------
(***************************************************************************)
(* help-now: the task / volunteer coordination logic of the client hooks   *)
(* useTasks and useTaskVolunteers, run by several browser sessions against *)
(* one hosted Postgres store (tables tasks, task_volunteers, profiles with *)
(* their UNIQUE constraint and row-level policies).                        *)
(*                                                                         *)
(* Every supabase call is one atomic step at the store; the awaits between *)
(* the calls of one hook function are the places where the refetches of    *)
(* the instance interleave.  A refetch (fetchTasks, fetchVolunteers) is    *)
(* fire-and-forget: it is issued, reads the store at some later moment,    *)
(* and its result is applied to the hook state at some still later moment, *)
(* in any order.                                                          *)
(*                                                                         *)
(* Spec follows one mounted component at a time (NoInstance): the sessions *)
(* take turns, and what one wrote is what the next one finds.  SpecFeed    *)
(* has the feed mounted in several sessions at once, SpecErrors the feed   *)
(* and the modal; SpecMatch and SpecDistance apply the best match of the   *)
(* feed and the distance of fetchTasks to the inputs of their initial      *)
(* states.  SpecWithdraw starts the modal from volunteer rows of every     *)
(* status, SpecComplete runs completeTask of two creators side by side,    *)
(* SpecLocate applies the distance annotation of fetchTasks to located and *)
(* unlocated profiles and tasks, and SpecChat is the message list of       *)
(* useTaskMessages with its initial fetch and its realtime INSERT events.  *)
(***************************************************************************)
EXTENDS Integers, FiniteSets, Sequences, Bags, TLC

(***************************************************************************)
(* Bounds of the model.                                                    *)
(***************************************************************************)
MaxTasks == 1           \* tasks in the store
MaxVolunteersInput == 2 \* max_volunteers is drawn from 1..MaxVolunteersInput
MaxInflight == 2        \* outstanding fetchVolunteers calls per hook instance
MaxTasksInflight == 1   \* outstanding fetchTasks calls per hook instance
MaxEventFetches == 1    \* and those that change events of other sessions started
MaxStat == 2            \* completeTask is not started once a profile counts MaxStat tasks

Users == {"u1", "u2", "u3"}
NoUser == "anon"

\* The browser sessions: one per user, and one that is signed out.
Guest == "guest"
Sessions == Users \cup {Guest}

TaskIds == 1 .. MaxTasks
NoTask == 0

TaskStatus == {"open", "in_progress", "completed", "cancelled"}
TimeNeeded == {"15min", "30min", "1hour", "2hours", "half_day"}

\* The durations the tasks of the model are created with.
TimeNeededInput == {"30min", "half_day"}

VARIABLES
  tasks,               \* table tasks: id -> row
  task_volunteers,     \* table task_volunteers: a bag of rows
  profiles,            \* table profiles: user_id -> stats
  feedOpen,            \* useTasks: whether the session has an instance mounted
  localTasks,          \* useTasks: tasks state, per session
  tasksInflight,       \* useTasks: outstanding fetchTasks calls, per session
  loading,             \* useTasks: loading state, per session
  hookTask,            \* useTaskVolunteers: the taskId the hook is mounted with
  volunteers,          \* useTaskVolunteers: volunteers state, per session
  userVolunteerStatus, \* useTaskVolunteers: userVolunteerStatus state
  volInflight,         \* useTaskVolunteers: outstanding fetchVolunteers calls
  task_messages,       \* table task_messages: the rows in the order of created_at
  chatTask,            \* useTaskMessages: the taskId the hook is mounted with
  messages,            \* useTaskMessages: messages state, per session
  messagesInflight,    \* useTaskMessages: outstanding fetchMessages calls
  messageEvents,       \* INSERT events on the channel of a chat, not yet handled
  messageHandlers,     \* event handlers waiting for the author's profile
  profilesCache,       \* useTaskMessages: profilesCache ref (the cached user ids)
  op,                  \* the hook function a session is suspended in (at an await)
  ret                  \* what the last hook call of the mounted component returned

vars == <<tasks, task_volunteers, profiles, feedOpen, localTasks, tasksInflight, loading,
          hookTask, volunteers, userVolunteerStatus, volInflight, task_messages, chatTask,
          messages, messagesInflight, messageEvents, messageHandlers, profilesCache, op, ret>>

dbVars == <<tasks, task_volunteers, profiles>>
tasksHookVars == <<feedOpen, localTasks, tasksInflight, loading>>
volHookVars == <<hookTask, volunteers, userVolunteerStatus, volInflight>>
chatVars == <<task_messages, chatTask, messages, messagesInflight, messageEvents,
              messageHandlers, profilesCache>>

----------------------------------------------------------------------------
(***************************************************************************)
(* The store: rows, constraints and row-level policies.                    *)
(***************************************************************************)

\* auth.uid() of a session: its user id, or null when signed out.
AuthUid(s) == IF s \in Users THEN s ELSE NoUser

VolRow(t, v, st) == [task_id |-> t, volunteer_id |-> v, status |-> st]

\* The rows of a bag that satisfy P, as a bag.
BagFilter(B, P(_)) == [r \in {x \in DOMAIN B : P(x)} |-> B[r]]

\* select * from task_volunteers where task_id = t
RowsOfTask(B, t) == BagFilter(B, LAMBDA r : r.task_id = t)

\* Number of rows of the pair (t, v).
RowCount(B, t, v) ==
  BagCardinality(BagFilter(B, LAMBDA r : r.task_id = t /\ r.volunteer_id = v))

\* Number of rows of task t with the given status.
StatusCount(B, t, st) ==
  BagCardinality(BagFilter(B, LAMBDA r : r.task_id = t /\ r.status = st))

\* The stored status of the pair (t, v); "none" when it has no row.
StatusOf(B, t, v) ==
  LET rows == {r \in DOMAIN B : r.task_id = t /\ r.volunteer_id = v}
  IN  IF rows = {} THEN "none" ELSE (CHOOSE r \in rows : TRUE).status

\* The insert check of a table without the UNIQUE constraint.
VolInsertAllowedNoUnique(t, v) ==
  /\ t \in DOMAIN tasks
  /\ v \in Users

\* UNIQUE (task_id, volunteer_id) and the foreign key on tasks(id):
\* whether the store takes the insert of a row for (t, v).
VolInsertAllowed(t, v) ==
  /\ t \in DOMAIN tasks
  /\ v \in Users
  /\ RowCount(task_volunteers, t, v) = 0

\* Policies for UPDATE on task_volunteers: the volunteer's own row, or any
\* row of a task the caller created.
VolUpdatePolicy(uid, r) ==
  \/ uid = r.volunteer_id
  \/ r.task_id \in DOMAIN tasks /\ tasks[r.task_id].creator_id = uid

\* Policy for DELETE on task_volunteers: the volunteer's own row.
VolDeletePolicy(uid, r) == uid = r.volunteer_id

TaskUpdateAnyone(uid, t) == t \in DOMAIN tasks

\* Policy for UPDATE on tasks: the creator's own tasks.
TaskUpdatePolicy(uid, t) == t \in DOMAIN tasks /\ tasks[t].creator_id = uid

\* Policy for UPDATE on profiles: the caller's own profile.
ProfileUpdatePolicy(uid, u) == uid = u

\* The update without its volunteer_id filter: every row of the task is set.
VolUpdateAnyVolunteer(uid, t, v, st) ==
  BagOfAll(LAMBDA r : IF r.task_id = t /\ VolUpdatePolicy(uid, r)
                      THEN [r EXCEPT !.status = st] ELSE r,
           task_volunteers)

\* update task_volunteers set status = st where task_id = t and volunteer_id = v
\* as run for uid: rows the policy hides are skipped without an error.
VolUpdate(uid, t, v, st) ==
  BagOfAll(LAMBDA r : IF r.task_id = t /\ r.volunteer_id = v /\ VolUpdatePolicy(uid, r)
                      THEN [r EXCEPT !.status = st] ELSE r,
           task_volunteers)

VolDeletePending(uid, t, v) ==
  BagFilter(task_volunteers,
            LAMBDA r : ~(/\ r.task_id = t /\ r.volunteer_id = v /\ r.status = "pending"
                         /\ VolDeletePolicy(uid, r)))

\* delete from task_volunteers where task_id = t and volunteer_id = v, as run for uid.
VolDelete(uid, t, v) ==
  BagFilter(task_volunteers,
            LAMBDA r : ~(r.task_id = t /\ r.volunteer_id = v /\ VolDeletePolicy(uid, r)))

\* update tasks set <fields> where id = t, as run for uid.
TaskUpdate(uid, t, newRow) ==
  IF TaskUpdatePolicy(uid, t) THEN [tasks EXCEPT ![t] = newRow] ELSE tasks

----------------------------------------------------------------------------
(***************************************************************************)
(* Refetches in flight.  A request is first only sent, then it has read    *)
(* the store (data), then it is applied to the hook state and leaves.      *)
(***************************************************************************)
Sent == [read |-> FALSE, data |-> EmptyBag]
Read(d) == [read |-> TRUE, data |-> d]

\* Whether the hook instance of s may issue one more refetch.
RoomVolunteers(s) == BagCardinality(volInflight[s]) < MaxInflight
RoomTasks(s) == BagCardinality(tasksInflight[s]) < MaxTasksInflight

\* The tasks table is published for realtime, and every mounted useTasks
\* instance subscribes to its changes with a handler that calls fetchTasks():
\* when a statement changes a row, a fetchTasks call starts in every mounted
\* instance.  The instance of the session in own, which calls fetchTasks()
\* itself once its statement has returned, is left out: its two calls read
\* the store after the change alike.
Publish(inflight, changed, own) ==
  IF changed
  THEN [x \in Sessions |->
          IF feedOpen[x] /\ x \notin own THEN inflight[x] (+) SetToBag({Sent}) ELSE inflight[x]]
  ELSE inflight

\* setLoading(true) of the fetchTasks calls a published change starts.
PublishLoading(flags, changed, own) ==
  IF changed
  THEN [x \in Sessions |-> IF feedOpen[x] /\ x \notin own THEN TRUE ELSE flags[x]]
  ELSE flags

\* Whether the instances a change is published to may start one more call.
RoomPublish(own) ==
  \A x \in Sessions \ own :
    feedOpen[x] => BagCardinality(tasksInflight[x]) < MaxTasksInflight + MaxEventFetches

Idle == [pc |-> "idle"]

\* What a hook function returned: { error } of the named function.  NoReturn
\* stands for a component in which no call has returned since it was mounted,
\* and for a call that is suspended at an await.
Returned(fn, err) == [fn |-> fn, error |-> err]
NoReturn == [fn |-> "none", error |-> FALSE]

\* No hook instance is mounted.  The model follows one mounted component at a
\* time: a component (the task detail modal with useTaskVolunteers, or a
\* component with useTasks) is mounted while no other is, in any session.
NoInstance == \A x \in Sessions : hookTask[x] = NoTask /\ ~feedOpen[x]

\* The session is not suspended inside a hook function.
IsIdle(s) == op[s].pc = "idle"

----------------------------------------------------------------------------
(***************************************************************************)
(* useTaskVolunteers                                                       *)
(***************************************************************************)

\* The hook is mounted by the task detail modal for a task (taskId), and its
\* effect calls fetchVolunteers.
OpenTask(s, t) ==
  /\ hookTask[s] = NoTask
  /\ t \in DOMAIN tasks
  /\ NoInstance
  /\ hookTask' = [hookTask EXCEPT ![s] = t]
  /\ volInflight' = [volInflight EXCEPT ![s] = @ (+) SetToBag({Sent})]
  /\ ret' = NoReturn
  /\ UNCHANGED <<chatVars, dbVars, tasksHookVars, volunteers, userVolunteerStatus, op>>

\* The modal is closed: the hook instance and its state are gone, and what an
\* outstanding fetchVolunteers returns is applied to nothing.
CloseTask(s) ==
  /\ hookTask[s] # NoTask
  /\ IsIdle(s)
  /\ hookTask' = [hookTask EXCEPT ![s] = NoTask]
  /\ volunteers' = [volunteers EXCEPT ![s] = EmptyBag]
  /\ userVolunteerStatus' = [userVolunteerStatus EXCEPT ![s] = "null"]
  /\ volInflight' = [volInflight EXCEPT ![s] = EmptyBag]
  /\ ret' = NoReturn
  /\ UNCHANGED <<chatVars, dbVars, tasksHookVars, op>>

\* fetchVolunteers(), called by a component (the hook exports it).
FetchVolunteers(s) ==
  /\ hookTask[s] # NoTask
  /\ RoomVolunteers(s)
  /\ volInflight' = [volInflight EXCEPT ![s] = @ (+) SetToBag({Sent})]
  /\ UNCHANGED <<chatVars, dbVars, tasksHookVars, hookTask, volunteers, userVolunteerStatus, op, ret>>

\* The select of an outstanding fetchVolunteers runs at the store.
FetchVolunteersRead(s) ==
  /\ BagIn(Sent, volInflight[s])
  /\ volInflight' = [volInflight EXCEPT ![s] =
        (@ (-) SetToBag({Sent})) (+) SetToBag({Read(RowsOfTask(task_volunteers, hookTask[s]))})]
  /\ UNCHANGED <<chatVars, dbVars, tasksHookVars, hookTask, volunteers, userVolunteerStatus, op, ret>>

\* userVolunteer?.status || null for the signed-in user.
UserStatusIn(list, uid) ==
  LET mine == {r \in DOMAIN list : r.volunteer_id = uid}
  IN  IF mine = {} THEN "null" ELSE (CHOOSE r \in mine : TRUE).status

\* The result of an outstanding fetchVolunteers is applied: setVolunteers and,
\* for a signed-in user, setUserVolunteerStatus.
FetchVolunteersLand(s) ==
  \E f \in DOMAIN volInflight[s] :
    /\ f.read
    /\ volInflight' = [volInflight EXCEPT ![s] = @ (-) SetToBag({f})]
    /\ volunteers' = [volunteers EXCEPT ![s] = f.data]
    /\ userVolunteerStatus' =
         IF AuthUid(s) # NoUser
         THEN [userVolunteerStatus EXCEPT ![s] = UserStatusIn(f.data, AuthUid(s))]
         ELSE userVolunteerStatus
    /\ UNCHANGED <<chatVars, dbVars, tasksHookVars, hookTask, op, ret>>

\* offerToHelp whose insert names no status, as the insert of acceptTask does.
OfferToHelpNoStatus(s) ==
  /\ IsIdle(s)
  /\ hookTask[s] # NoTask
  /\ RoomVolunteers(s)
  /\ \E netOk \in BOOLEAN :
       LET t == hookTask[s]
           ok == AuthUid(s) # NoUser /\ netOk /\ VolInsertAllowed(t, AuthUid(s))
       IN  IF ok
           THEN /\ task_volunteers' = task_volunteers (+) SetToBag({VolRow(t, AuthUid(s), "active")})
                /\ userVolunteerStatus' = [userVolunteerStatus EXCEPT ![s] = "pending"]
                /\ volInflight' = [volInflight EXCEPT ![s] = @ (+) SetToBag({Sent})]
                /\ ret' = Returned("offerToHelp", FALSE)
           ELSE /\ ret' = Returned("offerToHelp", TRUE)
                /\ UNCHANGED <<task_volunteers, userVolunteerStatus, volInflight>>
  /\ UNCHANGED <<chatVars, tasks, profiles, tasksHookVars, hookTask, volunteers, op>>

\* offerToHelp(taskId), called by the modal with the task it shows.
OfferToHelp(s) ==
  /\ IsIdle(s)
  /\ hookTask[s] # NoTask
  /\ RoomVolunteers(s)
  /\ \E netOk \in BOOLEAN :
       LET t == hookTask[s]
           ok == AuthUid(s) # NoUser /\ netOk /\ VolInsertAllowed(t, AuthUid(s))
       IN  IF ok
           THEN /\ task_volunteers' = task_volunteers (+) SetToBag({VolRow(t, AuthUid(s), "pending")})
                /\ userVolunteerStatus' = [userVolunteerStatus EXCEPT ![s] = "pending"]
                /\ volInflight' = [volInflight EXCEPT ![s] = @ (+) SetToBag({Sent})]
                /\ ret' = Returned("offerToHelp", FALSE)
           ELSE /\ ret' = Returned("offerToHelp", TRUE)
                /\ UNCHANGED <<task_volunteers, userVolunteerStatus, volInflight>>
  /\ UNCHANGED <<chatVars, tasks, profiles, tasksHookVars, hookTask, volunteers, op>>


\* acceptVolunteer(volunteerId), first await: the update of the volunteer row.
\* The count pushed to the task afterwards is computed from the volunteers
\* state the function closed over when it was called.
AcceptVolunteer(s, v) ==
  /\ IsIdle(s)
  /\ \E netOk \in BOOLEAN :
       IF hookTask[s] # NoTask /\ netOk
       THEN /\ task_volunteers' = VolUpdate(AuthUid(s), hookTask[s], v, "accepted")
            /\ op' = [op EXCEPT ![s] =
                 [pc |-> "av_task", t |-> hookTask[s],
                  n |-> StatusCount(volunteers[s], hookTask[s], "accepted") + 1]]
            /\ ret' = NoReturn
       ELSE /\ ret' = Returned("acceptVolunteer", TRUE)
            /\ UNCHANGED <<task_volunteers, op>>
  /\ UNCHANGED <<chatVars, tasks, profiles, tasksHookVars, volHookVars>>

\* acceptVolunteer whose second await also turns the offers still pending on
\* the task to rejected.
AcceptVolunteerTaskClosing(s) ==
  /\ op[s].pc = "av_task"
  /\ RoomVolunteers(s)
  /\ RoomPublish({})
  /\ \E netOk \in BOOLEAN :
       tasks' = IF netOk /\ op[s].t \in DOMAIN tasks
                THEN TaskUpdate(AuthUid(s), op[s].t,
                       [tasks[op[s].t] EXCEPT !.current_volunteers = op[s].n,
                                              !.status = "in_progress"])
                ELSE tasks
  /\ task_volunteers' =
       BagOfAll(LAMBDA r : IF r.task_id = op[s].t /\ r.status = "pending"
                           THEN [r EXCEPT !.status = "rejected"] ELSE r,
                task_volunteers)
  /\ volInflight' = [volInflight EXCEPT ![s] = @ (+) SetToBag({Sent})]
  /\ op' = [op EXCEPT ![s] = Idle]
  /\ ret' = Returned("acceptVolunteer", FALSE)
  /\ UNCHANGED <<chatVars, profiles, tasksHookVars, hookTask, volunteers, userVolunteerStatus>>

\* acceptVolunteer, second await: the update of the task row (its result is
\* not looked at), then fetchVolunteers() and return { error: null }.
AcceptVolunteerTask(s) ==
  /\ op[s].pc = "av_task"
  /\ RoomVolunteers(s)
  /\ RoomPublish({})
  /\ \E netOk \in BOOLEAN :
       tasks' = IF netOk /\ op[s].t \in DOMAIN tasks
                THEN TaskUpdate(AuthUid(s), op[s].t,
                       [tasks[op[s].t] EXCEPT !.current_volunteers = op[s].n,
                                              !.status = "in_progress"])
                ELSE tasks
  /\ tasksInflight' = Publish(tasksInflight, tasks' # tasks, {})
  /\ loading' = PublishLoading(loading, tasks' # tasks, {})
  /\ volInflight' = [volInflight EXCEPT ![s] = @ (+) SetToBag({Sent})]
  /\ op' = [op EXCEPT ![s] = Idle]
  /\ ret' = Returned("acceptVolunteer", FALSE)
  /\ UNCHANGED <<chatVars, task_volunteers, profiles, feedOpen, localTasks, hookTask, volunteers,
                 userVolunteerStatus>>

RejectVolunteerReleasing(s, v) ==
  /\ IsIdle(s)
  /\ RoomVolunteers(s)
  /\ \E netOk \in BOOLEAN :
       IF hookTask[s] # NoTask /\ netOk
       THEN /\ task_volunteers' = VolUpdate(AuthUid(s), hookTask[s], v, "rejected")
            /\ tasks' = IF /\ hookTask[s] \in DOMAIN tasks
                           /\ StatusOf(task_volunteers, hookTask[s], v) = "accepted"
                           /\ tasks[hookTask[s]].current_volunteers > 0
                        THEN [tasks EXCEPT ![hookTask[s]].current_volunteers = @ - 1]
                        ELSE tasks
            /\ volInflight' = [volInflight EXCEPT ![s] = @ (+) SetToBag({Sent})]
            /\ ret' = Returned("rejectVolunteer", FALSE)
       ELSE /\ ret' = Returned("rejectVolunteer", TRUE)
            /\ UNCHANGED <<tasks, task_volunteers, volInflight>>
  /\ UNCHANGED <<chatVars, profiles, tasksHookVars, hookTask, volunteers, userVolunteerStatus, op>>

\* rejectVolunteer(volunteerId)
RejectVolunteer(s, v) ==
  /\ IsIdle(s)
  /\ RoomVolunteers(s)
  /\ \E netOk \in BOOLEAN :
       IF hookTask[s] # NoTask /\ netOk
       THEN /\ task_volunteers' = VolUpdate(AuthUid(s), hookTask[s], v, "rejected")
            /\ volInflight' = [volInflight EXCEPT ![s] = @ (+) SetToBag({Sent})]
            /\ ret' = Returned("rejectVolunteer", FALSE)
       ELSE /\ ret' = Returned("rejectVolunteer", TRUE)
            /\ UNCHANGED <<task_volunteers, volInflight>>
  /\ UNCHANGED <<chatVars, tasks, profiles, tasksHookVars, hookTask, volunteers,
                 userVolunteerStatus, op>>

\* withdrawOffer()
WithdrawOffer(s) ==
  /\ IsIdle(s)
  /\ RoomVolunteers(s)
  /\ \E netOk \in BOOLEAN :
       IF AuthUid(s) # NoUser /\ hookTask[s] # NoTask /\ netOk
       THEN /\ task_volunteers' = VolDelete(AuthUid(s), hookTask[s], AuthUid(s))
            /\ userVolunteerStatus' = [userVolunteerStatus EXCEPT ![s] = "null"]
            /\ volInflight' = [volInflight EXCEPT ![s] = @ (+) SetToBag({Sent})]
            /\ ret' = Returned("withdrawOffer", FALSE)
       ELSE /\ ret' = Returned("withdrawOffer", TRUE)
            /\ UNCHANGED <<task_volunteers, userVolunteerStatus, volInflight>>
  /\ UNCHANGED <<chatVars, tasks, profiles, tasksHookVars, hookTask, volunteers, op>>

\* pendingCount and acceptedCount, derived from the volunteers state.
pendingCount(s) == BagCardinality(BagFilter(volunteers[s], LAMBDA r : r.status = "pending"))
acceptedCount(s) == BagCardinality(BagFilter(volunteers[s], LAMBDA r : r.status = "accepted"))

----------------------------------------------------------------------------
(***************************************************************************)
(* useTasks                                                                *)
(***************************************************************************)

\* A row of tasks as a client receives it.  Ids are given in the order of
\* creation, so that the order of created_at is the order of the ids.
TaskRecord(t) ==
  [id |-> t, creator_id |-> tasks[t].creator_id, status |-> tasks[t].status,
   max_volunteers |-> tasks[t].max_volunteers,
   current_volunteers |-> tasks[t].current_volunteers, time_needed |-> tasks[t].time_needed]

\* The rows with ids n, n - 1, ..., 1 that the status filter lets through.
RECURSIVE VisibleTasksFrom(_)
VisibleTasksUnfiltered(n) == [i \in 1 .. n |-> TaskRecord(n + 1 - i)]

VisibleTasksFrom(n) ==
  IF n = 0
  THEN << >>
  ELSE (IF tasks[n].status \in {"open", "in_progress"} THEN <<TaskRecord(n)>> ELSE << >>)
       \o VisibleTasksFrom(n - 1)

\* select * from tasks where status in ('open', 'in_progress')
\* order by created_at desc
VisibleTasks == VisibleTasksFrom(Len(tasks))

\* tasks.find(t => t.id === taskId): whether it finds a task, and the task.
HasTask(list, t) == \E i \in DOMAIN list : list[i].id = t
FindTask(list, t) == list[CHOOSE i \in DOMAIN list : list[i].id = t]

\* A component that uses useTasks is mounted: tasks starts empty and the
\* effect calls fetchTasks.
MountTasks(s) ==
  /\ ~feedOpen[s]
  /\ NoInstance
  /\ feedOpen' = [feedOpen EXCEPT ![s] = TRUE]
  /\ tasksInflight' = [tasksInflight EXCEPT ![s] = @ (+) SetToBag({Sent})]
  /\ loading' = [loading EXCEPT ![s] = TRUE]
  /\ ret' = NoReturn
  /\ UNCHANGED <<chatVars, dbVars, localTasks, volHookVars, op>>

\* The component is unmounted: the instance and its state are gone.
UnmountTasks(s) ==
  /\ feedOpen[s]
  /\ IsIdle(s)
  /\ feedOpen' = [feedOpen EXCEPT ![s] = FALSE]
  /\ localTasks' = [localTasks EXCEPT ![s] = << >>]
  /\ tasksInflight' = [tasksInflight EXCEPT ![s] = EmptyBag]
  /\ loading' = [loading EXCEPT ![s] = TRUE]
  /\ ret' = NoReturn
  /\ UNCHANGED <<chatVars, dbVars, volHookVars, op>>

\* fetchTasks(), called by a component or by a realtime event on tasks.
FetchTasks(s) ==
  /\ feedOpen[s]
  /\ RoomTasks(s)
  /\ tasksInflight' = [tasksInflight EXCEPT ![s] = @ (+) SetToBag({Sent})]
  /\ loading' = [loading EXCEPT ![s] = TRUE]
  /\ UNCHANGED <<chatVars, dbVars, feedOpen, localTasks, volHookVars, op, ret>>

\* The select of an outstanding fetchTasks runs at the store.
FetchTasksRead(s) ==
  /\ BagIn(Sent, tasksInflight[s])
  /\ tasksInflight' = [tasksInflight EXCEPT ![s] =
        (@ (-) SetToBag({Sent})) (+) SetToBag({Read(VisibleTasks)})]
  /\ UNCHANGED <<chatVars, dbVars, feedOpen, localTasks, loading, volHookVars, op, ret>>

\* The result of an outstanding fetchTasks is applied: setTasks, and
\* setLoading(false) in the finally block.
FetchTasksLand(s) ==
  \E f \in DOMAIN tasksInflight[s] :
    /\ f.read
    /\ tasksInflight' = [tasksInflight EXCEPT ![s] = @ (-) SetToBag({f})]
    /\ localTasks' = [localTasks EXCEPT ![s] = f.data]
    /\ loading' = [loading EXCEPT ![s] = FALSE]
    /\ UNCHANGED <<chatVars, dbVars, feedOpen, volHookVars, op, ret>>

\* The taskData a component passes to createTask, as far as the model follows
\* it; creator_id is what the object holds under that key, NoUser when it
\* holds nothing there (as the object of CreateTaskData does).
TaskData(mv, tn, cid) == [max_volunteers |-> mv, time_needed |-> tn, creator_id |-> cid]

\* { ...taskData, creator_id: user.id }: the key written last wins.
InsertData(taskData, uid) == [taskData EXCEPT !.creator_id = uid]

\* The insert policy of tasks: WITH CHECK (auth.uid() = creator_id).
TaskInsertPolicy(uid, data) == uid # NoUser /\ data.creator_id = uid

\* The row an insert into tasks stores: status and current_volunteers take the
\* column defaults.
NewTaskRow(data) ==
  [creator_id |-> data.creator_id, status |-> "open", max_volunteers |-> data.max_volunteers,
   current_volunteers |-> 0, time_needed |-> data.time_needed]

CreateTaskRefetching(s, taskData) ==
  /\ IsIdle(s)
  /\ feedOpen[s]
  /\ Cardinality(DOMAIN tasks) < MaxTasks
  /\ RoomTasks(s)
  /\ \E netOk \in BOOLEAN :
       IF /\ AuthUid(s) # NoUser
          /\ netOk
          /\ TaskInsertPolicy(AuthUid(s), InsertData(taskData, AuthUid(s)))
       THEN /\ tasks' = Append(tasks, NewTaskRow(InsertData(taskData, AuthUid(s))))
            /\ ret' = Returned("createTask", FALSE)
       ELSE /\ ret' = Returned("createTask", TRUE)
            /\ UNCHANGED tasks
  /\ tasksInflight' = [tasksInflight EXCEPT ![s] = @ (+) SetToBag({Sent})]
  /\ loading' = [loading EXCEPT ![s] = TRUE]
  /\ UNCHANGED <<chatVars, task_volunteers, profiles, feedOpen, localTasks, volHookVars, op>>

\* createTask(taskData)
CreateTask(s, taskData) ==
  /\ IsIdle(s)
  /\ feedOpen[s]
  /\ Cardinality(DOMAIN tasks) < MaxTasks
  /\ RoomTasks(s)
  /\ RoomPublish({s})
  /\ \E netOk \in BOOLEAN :
       IF /\ AuthUid(s) # NoUser
          /\ netOk
          /\ TaskInsertPolicy(AuthUid(s), InsertData(taskData, AuthUid(s)))
       THEN /\ tasks' = Append(tasks, NewTaskRow(InsertData(taskData, AuthUid(s))))
            /\ tasksInflight' =
                 Publish([tasksInflight EXCEPT ![s] = @ (+) SetToBag({Sent})], TRUE, {s})
            /\ loading' = PublishLoading([loading EXCEPT ![s] = TRUE], TRUE, {s})
            /\ ret' = Returned("createTask", FALSE)
       ELSE /\ ret' = Returned("createTask", TRUE)
            /\ UNCHANGED <<tasks, tasksInflight, loading>>
  /\ UNCHANGED <<chatVars, task_volunteers, profiles, feedOpen, localTasks, volHookVars, op>>

\* The status a row of task_volunteers takes when the insert names none.
DefaultVolStatus == "active"

\* acceptTask(taskId), first await: the insert of the volunteer row.  With the
\* task in the tasks state the function closed over, the count and status to
\* write are computed from that copy; without it the update is skipped.
AcceptTask(s, t) ==
  /\ IsIdle(s)
  /\ feedOpen[s]
  /\ HasTask(localTasks[s], t) \/ RoomTasks(s)
  /\ \E netOk \in BOOLEAN :
       IF AuthUid(s) # NoUser /\ netOk /\ VolInsertAllowed(t, AuthUid(s))
       THEN /\ task_volunteers' =
                 task_volunteers (+) SetToBag({VolRow(t, AuthUid(s), DefaultVolStatus)})
            /\ IF HasTask(localTasks[s], t)
               THEN LET task == FindTask(localTasks[s], t)
                        newCount == task.current_volunteers + 1
                        newStatus == IF newCount >= task.max_volunteers
                                     THEN "in_progress" ELSE task.status
                    IN  /\ op' = [op EXCEPT ![s] =
                              [pc |-> "at_task", t |-> t, n |-> newCount, st |-> newStatus]]
                        /\ ret' = NoReturn
                        /\ UNCHANGED <<tasksInflight, loading>>
               ELSE /\ tasksInflight' = [tasksInflight EXCEPT ![s] = @ (+) SetToBag({Sent})]
                    /\ loading' = [loading EXCEPT ![s] = TRUE]
                    /\ ret' = Returned("acceptTask", FALSE)
                    /\ UNCHANGED op
       ELSE /\ ret' = Returned("acceptTask", TRUE)
            /\ UNCHANGED <<task_volunteers, tasksInflight, loading, op>>
  /\ UNCHANGED <<chatVars, tasks, profiles, feedOpen, localTasks, volHookVars>>

AcceptTaskUpdateChecking(s) ==
  /\ op[s].pc = "at_task"
  /\ RoomTasks(s)
  /\ RoomPublish({s})
  /\ \E netOk \in BOOLEAN :
       /\ tasks' = IF netOk /\ op[s].t \in DOMAIN tasks
                   THEN TaskUpdate(AuthUid(s), op[s].t,
                          [tasks[op[s].t] EXCEPT !.current_volunteers = op[s].n,
                                                 !.status = op[s].st])
                   ELSE tasks
       /\ ret' = Returned("acceptTask", ~netOk)
  /\ tasksInflight' =
       Publish([tasksInflight EXCEPT ![s] = @ (+) SetToBag({Sent})], tasks' # tasks, {s})
  /\ loading' = PublishLoading([loading EXCEPT ![s] = TRUE], tasks' # tasks, {s})
  /\ op' = [op EXCEPT ![s] = Idle]
  /\ UNCHANGED <<chatVars, task_volunteers, profiles, feedOpen, localTasks, volHookVars>>

\* acceptTask, second await: the update of the task row (its result is not
\* looked at), then fetchTasks() and return { error: null }.
AcceptTaskUpdate(s) ==
  /\ op[s].pc = "at_task"
  /\ RoomTasks(s)
  /\ RoomPublish({s})
  /\ \E netOk \in BOOLEAN :
       tasks' = IF netOk /\ op[s].t \in DOMAIN tasks
                THEN TaskUpdate(AuthUid(s), op[s].t,
                       [tasks[op[s].t] EXCEPT !.current_volunteers = op[s].n,
                                              !.status = op[s].st])
                ELSE tasks
  /\ tasksInflight' =
       Publish([tasksInflight EXCEPT ![s] = @ (+) SetToBag({Sent})], tasks' # tasks, {s})
  /\ loading' = PublishLoading([loading EXCEPT ![s] = TRUE], tasks' # tasks, {s})
  /\ op' = [op EXCEPT ![s] = Idle]
  /\ ret' = Returned("acceptTask", FALSE)
  /\ UNCHANGED <<chatVars, task_volunteers, profiles, feedOpen, localTasks, volHookVars>>

\* hoursMap, in quarter hours: '15min': 0.25, '30min': 0.5, '1hour': 1,
\* '2hours': 2, 'half_day': 4.
hoursMap ==
  [tn \in TimeNeeded |->
     CASE tn = "15min" -> 1
       [] tn = "30min" -> 2
       [] tn = "1hour" -> 4
       [] tn = "2hours" -> 8
       [] tn = "half_day" -> 16]

\* The hours completeTask credits, in quarter hours: the table value of the
\* time_needed of the caller's own copy of the task, and 0.5 h when the caller's
\* tasks state does not hold the task.
HoursFor(list, t) ==
  IF HasTask(list, t) THEN hoursMap[FindTask(list, t).time_needed] ELSE 2

\* completeTask returns { error: null } after calling fetchTasks().
CompleteTaskReturn(s) ==
  /\ tasksInflight' = [tasksInflight EXCEPT ![s] =
        IF feedOpen[s] THEN @ (+) SetToBag({Sent}) ELSE @]
  /\ loading' = [loading EXCEPT ![s] = IF feedOpen[s] THEN TRUE ELSE @]
  /\ op' = [op EXCEPT ![s] = Idle]
  /\ ret' = Returned("completeTask", FALSE)

\* completeTask(taskId), first await: the task is looked up in the tasks state
\* the function closed over, then the task row is set to completed.
CompleteTask(s, t) ==
  /\ IsIdle(s)
  /\ feedOpen[s]
  /\ \A u \in Users : profiles[u].tasks_completed < MaxStat
  /\ RoomPublish({s})
  /\ \E netOk \in BOOLEAN :
       IF netOk
       THEN /\ tasks' = IF t \in DOMAIN tasks
                        THEN TaskUpdate(AuthUid(s), t, [tasks[t] EXCEPT !.status = "completed"])
                        ELSE tasks
            /\ op' = [op EXCEPT ![s] =
                 [pc |-> "ct_select", t |-> t, hours |-> HoursFor(localTasks[s], t)]]
            /\ ret' = NoReturn
       ELSE /\ ret' = Returned("completeTask", TRUE)
            /\ UNCHANGED <<tasks, op>>
  /\ tasksInflight' = Publish(tasksInflight, tasks' # tasks, {s})
  /\ loading' = PublishLoading(loading, tasks' # tasks, {s})
  /\ UNCHANGED <<chatVars, task_volunteers, profiles, feedOpen, localTasks, volHookVars>>

\* select volunteer_id from task_volunteers where task_id = t and status = 'accepted'
AcceptedVolunteers(t) ==
  {r.volunteer_id : r \in {x \in DOMAIN task_volunteers :
                              x.task_id = t /\ x.status = "accepted"}}

\* completeTask, second await: the accepted volunteers of the task are read.
\* With none, or with the read failing, the function returns.
CompleteTaskSelect(s) ==
  /\ op[s].pc = "ct_select"
  /\ RoomTasks(s)
  /\ \E netOk \in BOOLEAN :
       LET vs == IF netOk THEN AcceptedVolunteers(op[s].t) ELSE {}
       IN  IF vs = {}
           THEN CompleteTaskReturn(s)
           ELSE /\ op' = [op EXCEPT ![s] =
                     [pc |-> "ct_read", t |-> op[s].t, hours |-> op[s].hours, todo |-> vs]]
                /\ UNCHANGED <<tasksInflight, loading, ret>>
  /\ UNCHANGED <<chatVars, dbVars, feedOpen, localTasks, volHookVars>>

CompleteTaskReadProfileUndoing(s) ==
  /\ op[s].pc = "ct_read"
  /\ \E v \in op[s].todo, netOk \in BOOLEAN :
       IF netOk
       THEN /\ op' = [op EXCEPT ![s] =
                 [pc |-> "ct_write", t |-> op[s].t, hours |-> op[s].hours,
                  todo |-> op[s].todo \ {v}, v |-> v,
                  tc |-> profiles[v].tasks_completed,
                  th |-> profiles[v].total_volunteer_hours]]
            /\ UNCHANGED <<tasks, ret>>
       ELSE /\ tasks' = [tasks EXCEPT ![op[s].t].status = "in_progress"]
            /\ op' = [op EXCEPT ![s] = Idle]
            /\ ret' = Returned("completeTask", TRUE)
  /\ UNCHANGED <<chatVars, task_volunteers, profiles, feedOpen, localTasks, tasksInflight, loading,
                 volHookVars>>

\* completeTask, loop: the profile stats of the next volunteer are read.  A
\* volunteer whose read fails is passed over.
CompleteTaskReadProfile(s) ==
  /\ op[s].pc = "ct_read"
  /\ RoomTasks(s) \/ Cardinality(op[s].todo) > 1
  /\ \E v \in op[s].todo, netOk \in BOOLEAN :
       IF netOk
       THEN /\ op' = [op EXCEPT ![s] =
                 [pc |-> "ct_write", t |-> op[s].t, hours |-> op[s].hours,
                  todo |-> op[s].todo \ {v}, v |-> v,
                  tc |-> profiles[v].tasks_completed,
                  th |-> profiles[v].total_volunteer_hours]]
            /\ UNCHANGED <<tasksInflight, loading, ret>>
       ELSE IF op[s].todo = {v}
            THEN CompleteTaskReturn(s)
            ELSE /\ op' = [op EXCEPT ![s].todo = @ \ {v}]
                 /\ UNCHANGED <<tasksInflight, loading, ret>>
  /\ UNCHANGED <<chatVars, dbVars, feedOpen, localTasks, volHookVars>>

\* update profiles set tasks_completed = tc + 1, total_volunteer_hours = th + hours
\* where user_id = v, as run for uid.
ProfileUpdate(uid, v, tc, th, hours) ==
  IF ProfileUpdatePolicy(uid, v)
  THEN [profiles EXCEPT ![v] = [tasks_completed |-> tc + 1,
                                total_volunteer_hours |-> th + hours]]
  ELSE profiles

\* completeTask, loop: the volunteer's stats are written from the values read
\* (the result is not looked at); after the last volunteer the function returns.
CompleteTaskWriteProfile(s) ==
  /\ op[s].pc = "ct_write"
  /\ RoomTasks(s) \/ op[s].todo # {}
  /\ \E netOk \in BOOLEAN :
       profiles' = IF netOk
                   THEN ProfileUpdate(AuthUid(s), op[s].v, op[s].tc, op[s].th, op[s].hours)
                   ELSE profiles
  /\ IF op[s].todo = {}
     THEN CompleteTaskReturn(s)
     ELSE /\ op' = [op EXCEPT ![s] =
               [pc |-> "ct_read", t |-> op[s].t, hours |-> op[s].hours, todo |-> op[s].todo]]
          /\ UNCHANGED <<tasksInflight, loading, ret>>
  /\ UNCHANGED <<chatVars, tasks, task_volunteers, feedOpen, localTasks, volHookVars>>

----------------------------------------------------------------------------
(***************************************************************************)
(* TaskFeed / TaskMapView: the best match of the listed tasks              *)
(***************************************************************************)

\* The skills of the model, and the distances of a listed task in miles
\* (NoDistance stands for undefined: the user or the task's creator has no
\* location).
Skills == {"cooking", "driving"}
NoDistance == -1
MaxMatchTasks == 2
MaxSkillsNeeded == 2
Distances == {NoDistance, 0, 4, 5}
Urgencies == {"low", "medium", "high"}

\* Scores are counted in fifths of a point, so that 2 - distance / 5 is an
\* integer for a distance in whole miles.
ScoreUnit == 5

SeqsUpTo(S, n) == UNION {[1 .. k -> S] : k \in 0 .. n}

\* A task of filteredTasks, as far as the scorer reads it; its id is its
\* position in the list.
MatchTasks ==
  [skills_needed : SeqsUpTo(Skills, MaxSkillsNeeded), distance : Distances, urgency : Urgencies]

\* for (const skill of task.skills_needed) if (userSkills.has(skill)) score += 2
RECURSIVE SkillScore(_, _)
SkillScore(userSkills, skills_needed) ==
  IF skills_needed = << >>
  THEN 0
  ELSE (IF Head(skills_needed) \in userSkills THEN 2 * ScoreUnit ELSE 0)
       + SkillScore(userSkills, Tail(skills_needed))

DistanceScore(task) ==
  IF task.distance # NoDistance /\ task.distance < 5
  THEN 2 * ScoreUnit - task.distance
  ELSE 0

UrgencyScoreAlways(task) == ScoreUnit

UrgencyScore(task) == IF task.urgency = "high" THEN ScoreUnit ELSE 0

\* The score the loop gives one task.
Score(userSkills, task) ==
  SkillScore(userSkills, task.skills_needed) + DistanceScore(task) + UrgencyScore(task)

\* The loop over filteredTasks from position i on, with the best so far.
RECURSIVE BestLoop(_, _, _, _, _)
BestLoop(userSkills, filteredTasks, i, bestTask, bestScore) ==
  IF i > Len(filteredTasks)
  THEN [bestTask |-> bestTask, bestScore |-> bestScore]
  ELSE LET score == Score(userSkills, filteredTasks[i])
       IN IF score > bestScore
          THEN BestLoop(userSkills, filteredTasks, i + 1, i, score)
          ELSE BestLoop(userSkills, filteredTasks, i + 1, bestTask, bestScore)

\* bestMatchId: NoTask stands for null.
bestMatchId(skills, filteredTasks) ==
  IF skills = {} \/ filteredTasks = << >>
  THEN NoTask
  ELSE LET best == BestLoop(skills, filteredTasks, 1, NoTask, 0)
       IN IF best.bestScore > 0 THEN best.bestTask ELSE NoTask

\* A session renders the feed with the skills of its profile and a list of
\* tasks: the memo is about to be computed.
Rendering(skills, filteredTasks) ==
  [pc |-> "bestMatchId", skills |-> skills, filteredTasks |-> filteredTasks]

Rendered(s) == op[s].pc = "rendered"

\* The memo computes the best match of the list.
BestMatch(s) ==
  /\ op[s].pc = "bestMatchId"
  /\ op' = [op EXCEPT ![s] = [pc |-> "rendered", skills |-> op[s].skills,
                              filteredTasks |-> op[s].filteredTasks]]
  /\ ret' = [fn |-> "bestMatchId", error |-> FALSE,
             value |-> bestMatchId(op[s].skills, op[s].filteredTasks)]
  /\ UNCHANGED <<chatVars, dbVars, tasksHookVars, volHookVars>>

----------------------------------------------------------------------------
(***************************************************************************)
(* useTasks: calculateDistance                                             *)
(***************************************************************************)

\* Coordinates in degrees, on the grid where the haversine terms are rational:
\* sin^2 of a multiple of 30 degrees is a number of quarters, cos of a multiple
\* of 60 degrees a number of halves.
Lats == {-60, 0, 60}
Lngs == {-180, -120, -60, 0, 60, 120, 180}

\* Earth's radius in miles.
R == 3959

\* 4 * sin(deg)^2 for deg a multiple of 30.
Sin2x4(deg) ==
  CASE deg % 180 = 0 -> 0
    [] deg % 180 \in {30, 150} -> 1
    [] deg % 180 \in {60, 120} -> 3
    [] deg % 180 = 90 -> 4

\* 2 * cos(deg) for deg a multiple of 60.
Cosx2(deg) ==
  CASE deg % 360 = 0 -> 2
    [] deg % 360 \in {60, 300} -> 1
    [] deg % 360 \in {120, 240} -> -1
    [] deg % 360 = 180 -> -2

HaversineLat1Only(lat1, lng1, lat2, lng2) ==
  4 * Sin2x4((lat2 - lat1) \div 2)
  + Cosx2(lat1) * Cosx2(lat1) * Sin2x4((lng2 - lng1) \div 2)

\* 16 * a, where a = sin^2(dLat / 2) + cos(lat1) cos(lat2) sin^2(dLng / 2).
Haversine(lat1, lng1, lat2, lng2) ==
  4 * Sin2x4((lat2 - lat1) \div 2)
  + Cosx2(lat1) * Cosx2(lat2) * Sin2x4((lng2 - lng1) \div 2)

\* c = 2 * atan2(sqrt(a), sqrt(1 - a)) in thousandths of a radian, for
\* 16 * a = 0, 1, ..., 16.
ArcTable ==
  <<0, 505, 723, 896, 1047, 1186, 1318, 1445, 1571, 1696, 1823, 1955, 2094, 2246, 2419,
    2636, 3142>>

\* calculateDistance, in whole miles.
calculateDistance(lat1, lng1, lat2, lng2) ==
  (R * ArcTable[Haversine(lat1, lng1, lat2, lng2) + 1]) \div 1000

\* fetchTasks is about to compute the distance from the user's location to a
\* task's location.
Locating(lat1, lng1, lat2, lng2) ==
  [pc |-> "calculateDistance", lat1 |-> lat1, lng1 |-> lng1, lat2 |-> lat2, lng2 |-> lng2]

Located(s) == op[s].pc = "located"

CalculateDistance(s) ==
  /\ op[s].pc = "calculateDistance"
  /\ op' = [op EXCEPT ![s].pc = "located"]
  /\ ret' = [fn |-> "calculateDistance", error |-> FALSE,
             value |-> calculateDistance(op[s].lat1, op[s].lng1, op[s].lat2, op[s].lng2)]
  /\ UNCHANGED <<chatVars, dbVars, tasksHookVars, volHookVars>>

----------------------------------------------------------------------------
(***************************************************************************)
(* useTasks: updateTask                                                    *)
(***************************************************************************)

\* The updates a caller passes, as far as the model follows them: a status.
TaskUpdates == [status : TaskStatus]

UpdateTaskRefetching(s, t, updates) ==
  /\ IsIdle(s)
  /\ feedOpen[s]
  /\ RoomTasks(s)
  /\ RoomPublish({s})
  /\ \E netOk \in BOOLEAN :
       IF netOk
       THEN /\ tasks' = IF t \in DOMAIN tasks
                        THEN TaskUpdate(AuthUid(s), t, [tasks[t] EXCEPT !.status = updates.status])
                        ELSE tasks
            /\ ret' = Returned("updateTask", FALSE)
       ELSE /\ ret' = Returned("updateTask", TRUE)
            /\ UNCHANGED tasks
  /\ tasksInflight' =
       Publish([tasksInflight EXCEPT ![s] = @ (+) SetToBag({Sent})], tasks' # tasks, {s})
  /\ loading' = PublishLoading([loading EXCEPT ![s] = TRUE], tasks' # tasks, {s})
  /\ UNCHANGED <<chatVars, task_volunteers, profiles, feedOpen, localTasks, volHookVars, op>>

\* updateTask(taskId, updates): the function checks no user; an update that
\* matches no row, or only rows the policy hides, reports no error.
UpdateTask(s, t, updates) ==
  /\ IsIdle(s)
  /\ feedOpen[s]
  /\ RoomTasks(s)
  /\ RoomPublish({s})
  /\ \E netOk \in BOOLEAN :
       IF netOk
       THEN /\ tasks' = IF t \in DOMAIN tasks
                        THEN TaskUpdate(AuthUid(s), t, [tasks[t] EXCEPT !.status = updates.status])
                        ELSE tasks
            /\ tasksInflight' =
                 Publish([tasksInflight EXCEPT ![s] = @ (+) SetToBag({Sent})], tasks' # tasks, {s})
            /\ loading' = PublishLoading([loading EXCEPT ![s] = TRUE], tasks' # tasks, {s})
            /\ ret' = Returned("updateTask", FALSE)
       ELSE /\ ret' = Returned("updateTask", TRUE)
            /\ UNCHANGED <<tasks, tasksInflight, loading>>
  /\ UNCHANGED <<chatVars, task_volunteers, profiles, feedOpen, localTasks, volHookVars, op>>

----------------------------------------------------------------------------
(***************************************************************************)
(* useTaskMessages: the chat of a task                                     *)
(***************************************************************************)

\* Messages in the store.
MaxMessages == 2

\* The texts a user sends: nothing but blanks, or a text.
MessageTexts == {"", "hello"}

\* A row of task_messages.  The ids are given in the order of the inserts,
\* which is the order of created_at.
Message(id, t, u, text) == [id |-> id, task_id |-> t, user_id |-> u, message |-> text]

\* A participant of a task: its creator, or a user with a volunteer row on it.
IsParticipant(uid, t) ==
  /\ t \in DOMAIN tasks
  /\ tasks[t].creator_id = uid \/ RowCount(task_volunteers, t, uid) > 0

\* Policies of task_messages: participants view the messages of the task, and
\* a participant inserts messages under the own user id.
MessageSelectPolicy(uid, m) == IsParticipant(uid, m.task_id)
MessageInsertPolicy(uid, m) == uid = m.user_id /\ IsParticipant(uid, m.task_id)

\* select * from task_messages where task_id = t order by created_at asc
MessagesOfTask(t) == SelectSeq(task_messages, LAMBDA m : m.task_id = t)

\* The same select as run for uid.
MessagesVisible(uid, t) ==
  SelectSeq(task_messages, LAMBDA m : m.task_id = t /\ MessageSelectPolicy(uid, m))

\* The user ids of the messages of a list.
Authors(list) == {list[i].user_id : i \in DOMAIN list}

\* No chat is mounted and no message is stored.
ChatInit ==
  /\ task_messages = << >>
  /\ chatTask = [s \in Sessions |-> NoTask]
  /\ messages = [s \in Sessions |-> << >>]
  /\ messagesInflight = [s \in Sessions |-> EmptyBag]
  /\ messageEvents = [s \in Sessions |-> << >>]
  /\ messageHandlers = [s \in Sessions |-> {}]
  /\ profilesCache = [s \in Sessions |-> {}]

\* The chat of a task is mounted: messages starts empty, the effect calls
\* fetchMessages and subscribes to the INSERT events of the task's messages.
MountChat(s, t) ==
  /\ chatTask[s] = NoTask
  /\ t \in DOMAIN tasks
  /\ chatTask' = [chatTask EXCEPT ![s] = t]
  /\ messagesInflight' = [messagesInflight EXCEPT ![s] = @ (+) SetToBag({Sent})]
  /\ UNCHANGED <<dbVars, tasksHookVars, volHookVars, op, ret, task_messages, messages,
                 messageEvents, messageHandlers, profilesCache>>

\* The select of the outstanding fetchMessages runs at the store.
FetchMessagesRead(s) ==
  /\ BagIn(Sent, messagesInflight[s])
  /\ messagesInflight' = [messagesInflight EXCEPT ![s] =
        (@ (-) SetToBag({Sent}))
        (+) SetToBag({Read(MessagesVisible(AuthUid(s), chatTask[s]))})]
  /\ UNCHANGED <<dbVars, tasksHookVars, volHookVars, op, ret, task_messages, chatTask, messages,
                 messageEvents, messageHandlers, profilesCache>>

\* The rows of fetchMessages are applied: the profiles of the authors that are
\* not cached are fetched and cached (a failed fetch caches nothing), and
\* setMessages replaces the list.
FetchMessagesLand(s) ==
  \E f \in DOMAIN messagesInflight[s], netOk \in BOOLEAN :
    /\ f.read
    /\ messagesInflight' = [messagesInflight EXCEPT ![s] = @ (-) SetToBag({f})]
    /\ profilesCache' = [profilesCache EXCEPT ![s] = IF netOk THEN @ \cup Authors(f.data) ELSE @]
    /\ messages' = [messages EXCEPT ![s] = f.data]
    /\ UNCHANGED <<dbVars, tasksHookVars, volHookVars, op, ret, task_messages, chatTask,
                   messageEvents, messageHandlers>>

\* The INSERT event of a stored message, queued on the channel of every
\* mounted chat of the message's task whose user may view the message.
PublishMessage(m) ==
  [x \in Sessions |->
     IF chatTask[x] = m.task_id /\ MessageSelectPolicy(AuthUid(x), m)
     THEN Append(messageEvents[x], m) ELSE messageEvents[x]]

\* sendMessage(messageText)
SendMessage(s, messageText) ==
  /\ IsIdle(s)
  /\ Len(task_messages) < MaxMessages
  /\ \E netOk \in BOOLEAN :
       IF AuthUid(s) = NoUser \/ chatTask[s] = NoTask \/ messageText = ""
       THEN /\ ret' = Returned("sendMessage", TRUE)
            /\ UNCHANGED <<task_messages, messageEvents>>
       ELSE LET m == Message(Len(task_messages) + 1, chatTask[s], AuthUid(s), messageText)
            IN  IF netOk /\ MessageInsertPolicy(AuthUid(s), m)
                THEN /\ task_messages' = Append(task_messages, m)
                     /\ messageEvents' = PublishMessage(m)
                     /\ ret' = Returned("sendMessage", FALSE)
                ELSE /\ ret' = Returned("sendMessage", TRUE)
                     /\ UNCHANGED <<task_messages, messageEvents>>
  /\ UNCHANGED <<dbVars, tasksHookVars, volHookVars, op, chatTask, messages, messagesInflight,
                 messageHandlers, profilesCache>>

\* The handler of the INSERT events takes the next event of the channel: with
\* the author's profile cached it appends the message to the list, without it
\* it first asks for the profile.
MessageEvent(s) ==
  /\ messageEvents[s] # << >>
  /\ LET newMessage == Head(messageEvents[s])
     IN  /\ messageEvents' = [messageEvents EXCEPT ![s] = Tail(@)]
         /\ IF newMessage.user_id \in profilesCache[s]
            THEN /\ messages' = [messages EXCEPT ![s] = Append(@, newMessage)]
                 /\ UNCHANGED messageHandlers
            ELSE /\ messageHandlers' = [messageHandlers EXCEPT ![s] = @ \cup {newMessage}]
                 /\ UNCHANGED messages
  /\ UNCHANGED <<dbVars, tasksHookVars, volHookVars, op, ret, task_messages, chatTask,
                 messagesInflight, profilesCache>>

\* A handler that asked for the author's profile goes on: the profile is
\* cached when it came, and the message is appended to the list.
MessageAppend(s) ==
  \E newMessage \in messageHandlers[s], netOk \in BOOLEAN :
    /\ messageHandlers' = [messageHandlers EXCEPT ![s] = @ \ {newMessage}]
    /\ profilesCache' = [profilesCache EXCEPT ![s] =
                           IF netOk THEN @ \cup {newMessage.user_id} ELSE @]
    /\ messages' = [messages EXCEPT ![s] = Append(@, newMessage)]
    /\ UNCHANGED <<dbVars, tasksHookVars, volHookVars, op, ret, task_messages, chatTask,
                   messagesInflight, messageEvents>>

----------------------------------------------------------------------------
(***************************************************************************)
(* useTasks: the distance fetchTasks adds to the tasks it has read         *)
(***************************************************************************)

\* A profile coordinate that is null: location_lat and location_lng of a
\* profile are number | null, those of a task are numbers.
NoCoordinate == 999

\* Whether a number | null is truthy: null and 0 are not.
Truthy(x) == x # NoCoordinate /\ x # 0

\* profile?.location_lat && profile?.location_lng
\*   ? calculateDistance(profile.location_lat, profile.location_lng,
\*                       task.location_lat, task.location_lng)
\*   : undefined
TaskDistance(profile, task) ==
  IF Truthy(profile.location_lat) /\ Truthy(profile.location_lng)
  THEN calculateDistance(profile.location_lat, profile.location_lng,
                         task.location_lat, task.location_lng)
  ELSE NoDistance

\* (tasksData || []).map(task => ({ ...task, distance: ... }))
tasksWithData(profile, tasksData) ==
  [i \in DOMAIN tasksData |->
     [location_lat |-> tasksData[i].location_lat, location_lng |-> tasksData[i].location_lng,
      distance |-> TaskDistance(profile, tasksData[i])]]

\* The locations of the profiles and of the tasks of the model.
ProfileLocations == [location_lat : Lats \cup {NoCoordinate}, location_lng : Lngs \cup {NoCoordinate}]
TaskLocations == [location_lat : Lats, location_lng : {0, 60}]

\* fetchTasks has read tasksData for a caller with the given profile.
Annotating(profile, tasksData) ==
  [pc |-> "tasksWithData", profile |-> profile, tasksData |-> tasksData]

Annotated(s) == op[s].pc = "setTasks"

\* fetchTasks, from the rows read to setTasks(tasksWithData).
AnnotateTasks(s) ==
  /\ op[s].pc = "tasksWithData"
  /\ op' = [op EXCEPT ![s].pc = "setTasks"]
  /\ ret' = [fn |-> "fetchTasks", error |-> FALSE,
             value |-> tasksWithData(op[s].profile, op[s].tasksData)]
  /\ UNCHANGED <<chatVars, dbVars, tasksHookVars, volHookVars>>

----------------------------------------------------------------------------
(***************************************************************************)
(* Specifications                                                          *)
(***************************************************************************)

\* No hook instance is mounted and no call is running.
ClientInit ==
  /\ feedOpen = [s \in Sessions |-> FALSE]
  /\ localTasks = [s \in Sessions |-> << >>]
  /\ tasksInflight = [s \in Sessions |-> EmptyBag]
  /\ loading = [s \in Sessions |-> TRUE]
  /\ hookTask = [s \in Sessions |-> NoTask]
  /\ volunteers = [s \in Sessions |-> EmptyBag]
  /\ userVolunteerStatus = [s \in Sessions |-> "null"]
  /\ volInflight = [s \in Sessions |-> EmptyBag]
  /\ ChatInit
  /\ op = [s \in Sessions |-> Idle]
  /\ ret = NoReturn

NoStats == [u \in Users |-> [tasks_completed |-> 0, total_volunteer_hours |-> 0]]

\* The creator of the tasks of the model, and the users who volunteer: the
\* modal shows the accept / reject / complete controls to the creator only
\* (isCreator) and the offer control to the others only (canOffer), and the
\* card of the feed lets the others only accept the task.
Creator == "u1"
Volunteers == Users \ {Creator}

\* Nothing is stored and nothing is mounted; the creator creates the tasks.
Init ==
  /\ tasks = << >>
  /\ task_volunteers = EmptyBag
  /\ profiles = NoStats
  /\ ClientInit

Next ==
  \/ \E s \in Users :
       \/ \E t \in TaskIds : OpenTask(s, t)
       \/ CloseTask(s)
       \/ FetchVolunteers(s)
       \/ FetchVolunteersRead(s)
       \/ FetchVolunteersLand(s)
       \/ MountTasks(s)
       \/ UnmountTasks(s)
       \/ FetchTasks(s)
       \/ FetchTasksRead(s)
       \/ FetchTasksLand(s)
  \/ \E s \in Volunteers :
       \/ \E t \in TaskIds : AcceptTask(s, t)
       \/ AcceptTaskUpdate(s)
       \/ OfferToHelp(s)
       \/ WithdrawOffer(s)
  \/ \E v \in Volunteers :
       \/ AcceptVolunteer(Creator, v)
       \/ RejectVolunteer(Creator, v)
  \/ AcceptVolunteerTask(Creator)
  \/ \E mv \in 1 .. MaxVolunteersInput, tn \in TimeNeededInput :
       CreateTask(Creator, TaskData(mv, tn, NoUser))
  \/ \E t \in TaskIds : CompleteTask(Creator, t)
  \/ CompleteTaskSelect(Creator)
  \/ CompleteTaskReadProfile(Creator)
  \/ CompleteTaskWriteProfile(Creator)

Spec == Init /\ [][Next]_vars

\* The best match as a function of its inputs: a session renders the feed with
\* any skills and any list of tasks, nothing else is mounted.
InitMatch ==
  /\ tasks = << >>
  /\ task_volunteers = EmptyBag
  /\ profiles = NoStats
  /\ feedOpen = [s \in Sessions |-> FALSE]
  /\ localTasks = [s \in Sessions |-> << >>]
  /\ tasksInflight = [s \in Sessions |-> EmptyBag]
  /\ loading = [s \in Sessions |-> TRUE]
  /\ hookTask = [s \in Sessions |-> NoTask]
  /\ volunteers = [s \in Sessions |-> EmptyBag]
  /\ userVolunteerStatus = [s \in Sessions |-> "null"]
  /\ volInflight = [s \in Sessions |-> EmptyBag]
  /\ ChatInit
  /\ \E skills \in SUBSET Skills, filteredTasks \in SeqsUpTo(MatchTasks, MaxMatchTasks) :
       op = [s \in Sessions |-> IF s = Creator THEN Rendering(skills, filteredTasks) ELSE Idle]
  /\ ret = NoReturn

NextMatch == \E s \in Sessions : BestMatch(s)

SpecMatch == InitMatch /\ [][NextMatch]_vars

\* The distance as a function of its inputs: any two points of the grid.
InitDistance ==
  /\ tasks = << >>
  /\ task_volunteers = EmptyBag
  /\ profiles = NoStats
  /\ feedOpen = [s \in Sessions |-> FALSE]
  /\ localTasks = [s \in Sessions |-> << >>]
  /\ tasksInflight = [s \in Sessions |-> EmptyBag]
  /\ loading = [s \in Sessions |-> TRUE]
  /\ hookTask = [s \in Sessions |-> NoTask]
  /\ volunteers = [s \in Sessions |-> EmptyBag]
  /\ userVolunteerStatus = [s \in Sessions |-> "null"]
  /\ volInflight = [s \in Sessions |-> EmptyBag]
  /\ ChatInit
  /\ \E lat1, lat2 \in Lats, lng1, lng2 \in Lngs :
       op = [s \in Sessions |-> IF s = Creator THEN Locating(lat1, lng1, lat2, lng2) ELSE Idle]
  /\ ret = NoReturn

NextDistance == \E s \in Sessions : CalculateDistance(s)

SpecDistance == InitDistance /\ [][NextDistance]_vars

\* The feed in several sessions at once: the creator, a volunteer and a
\* signed-out visitor each have a component with useTasks mounted, which has
\* just called fetchTasks; the store holds up to MaxFeedTasks tasks of the
\* creator, open or cancelled, none of them accepted by anyone yet.  The
\* components call fetchTasks at no other time: further calls are those of
\* createTask and acceptTask and those the change events start.
MaxFeedTasks == 2
FeedTaskIds == 1 .. MaxFeedTasks
FeedSessions == {Creator, "u2", Guest}

StoredTasks ==
  [creator_id : {Creator}, status : {"open", "cancelled"}, max_volunteers : 1 .. MaxVolunteersInput,
   current_volunteers : {0}, time_needed : {"30min"}]

InitFeed ==
  /\ tasks \in SeqsUpTo(StoredTasks, MaxFeedTasks)
  /\ task_volunteers = EmptyBag
  /\ profiles = NoStats
  /\ feedOpen = [s \in Sessions |-> s \in FeedSessions]
  /\ localTasks = [s \in Sessions |-> << >>]
  /\ tasksInflight = [s \in Sessions |-> IF s \in FeedSessions THEN SetToBag({Sent}) ELSE EmptyBag]
  /\ loading = [s \in Sessions |-> TRUE]
  /\ hookTask = [s \in Sessions |-> NoTask]
  /\ volunteers = [s \in Sessions |-> EmptyBag]
  /\ userVolunteerStatus = [s \in Sessions |-> "null"]
  /\ volInflight = [s \in Sessions |-> EmptyBag]
  /\ ChatInit
  /\ op = [s \in Sessions |-> Idle]
  /\ ret = NoReturn

NextFeed ==
  \E s \in FeedSessions :
    \/ FetchTasksRead(s)
    \/ FetchTasksLand(s)
    \/ \E mv \in 1 .. MaxVolunteersInput, cid \in Users \cup {NoUser} :
         CreateTask(s, TaskData(mv, "30min", cid))
    \/ \E t \in FeedTaskIds : AcceptTask(s, t)
    \/ AcceptTaskUpdate(s)

SpecFeed == InitFeed /\ [][NextFeed]_vars

\* The functions that write, with the feed and the modal open at once: the
\* creator has the feed mounted and, when the store holds the task, either the
\* creator or a volunteer has the modal open on it; the lists are those of the
\* store and nothing is in flight.  The store is empty, or holds one open task
\* of the creator, with or without the pending offer of the volunteer.
OneTask ==
  <<[creator_id |-> Creator, status |-> "open", max_volunteers |-> MaxVolunteersInput,
     current_volunteers |-> 0, time_needed |-> "30min"]>>

InitErrors ==
  /\ tasks \in {<< >>, OneTask}
  /\ task_volunteers \in
       {EmptyBag} \cup (IF tasks = << >> THEN {} ELSE {SetToBag({VolRow(1, "u2", "pending")})})
  /\ profiles = NoStats
  /\ feedOpen = [s \in Sessions |-> s = Creator]
  /\ localTasks = [s \in Sessions |-> IF s = Creator THEN VisibleTasks ELSE << >>]
  /\ tasksInflight = [s \in Sessions |-> EmptyBag]
  /\ loading = [s \in Sessions |-> ~feedOpen[s]]
  /\ \E m \in {Creator, "u2"} :
       hookTask = [s \in Sessions |-> IF tasks # << >> /\ s = m THEN 1 ELSE NoTask]
  /\ volunteers = [s \in Sessions |-> IF hookTask[s] # NoTask
                                      THEN RowsOfTask(task_volunteers, 1) ELSE EmptyBag]
  /\ userVolunteerStatus = [s \in Sessions |-> UserStatusIn(volunteers[s], AuthUid(s))]
  /\ volInflight = [s \in Sessions |-> EmptyBag]
  /\ ChatInit
  /\ op = [s \in Sessions |-> Idle]
  /\ ret = NoReturn

NextErrors ==
  \/ \E s \in {Creator, "u2"} : FetchVolunteersRead(s) \/ FetchVolunteersLand(s)
  \/ FetchTasksRead(Creator)
  \/ FetchTasksLand(Creator)
  \/ \E mv \in 1 .. MaxVolunteersInput : CreateTask(Creator, TaskData(mv, "30min", NoUser))
  \/ \E t \in TaskIds, updates \in TaskUpdates : UpdateTask(Creator, t, updates)
  \/ OfferToHelp("u2")
  \/ WithdrawOffer("u2")
  \/ AcceptVolunteer(Creator, "u2")
  \/ AcceptVolunteerTask(Creator)
  \/ RejectVolunteer(Creator, "u2")

SpecErrors == InitErrors /\ [][NextErrors]_vars

\* withdrawOffer on rows of any status: the store holds one task of the
\* creator and, for each of two volunteers, no row or a row of any status a
\* statement of the program leaves; one volunteer and a signed-out visitor have
\* the modal open on the task with the list loaded, the other volunteer's hook
\* is mounted without a taskId.
RowStatuses == {"pending", "accepted", "rejected", DefaultVolStatus}

WithdrawSessions == {"u2", "u3", Guest}

RowsOf(st2, st3) ==
  SetToBag({VolRow(1, "u2", st2) : x \in {y \in {1} : st2 # "none"}}
           \cup {VolRow(1, "u3", st3) : x \in {y \in {1} : st3 # "none"}})

InitWithdraw ==
  /\ \E st \in {"open", "in_progress"}, n \in 0 .. MaxVolunteersInput :
       tasks = <<[creator_id |-> Creator, status |-> st, max_volunteers |-> MaxVolunteersInput,
                  current_volunteers |-> n, time_needed |-> "30min"]>>
  /\ \E st2, st3 \in RowStatuses \cup {"none"} : task_volunteers = RowsOf(st2, st3)
  /\ profiles = NoStats
  /\ feedOpen = [s \in Sessions |-> FALSE]
  /\ localTasks = [s \in Sessions |-> << >>]
  /\ tasksInflight = [s \in Sessions |-> EmptyBag]
  /\ loading = [s \in Sessions |-> TRUE]
  /\ hookTask = [s \in Sessions |-> IF s \in {"u2", Guest} THEN 1 ELSE NoTask]
  /\ volunteers = [s \in Sessions |-> IF hookTask[s] # NoTask
                                      THEN RowsOfTask(task_volunteers, 1) ELSE EmptyBag]
  /\ userVolunteerStatus = [s \in Sessions |-> UserStatusIn(volunteers[s], AuthUid(s))]
  /\ volInflight = [s \in Sessions |-> EmptyBag]
  /\ ChatInit
  /\ op = [s \in Sessions |-> Idle]
  /\ ret = NoReturn

NextWithdraw ==
  \E s \in WithdrawSessions :
    \/ FetchVolunteersRead(s)
    \/ FetchVolunteersLand(s)
    \/ OfferToHelp(s)
    \/ WithdrawOffer(s)

SpecWithdraw == InitWithdraw /\ [][NextWithdraw]_vars

\* completeTask on tasks that have accepted volunteers: two users have each
\* created one task, of different durations, and each has a component with
\* useTasks mounted whose list is loaded; each task is in progress with one or
\* two accepted volunteers, who may be any users (offerToHelp and
\* acceptVolunteer look at no role, so a creator may hold an accepted row on the
\* creator's own task).  Each creator completes the own task (isCreator), any
\* number of times and while the other creator's call is running.
CompleteSessions == {Creator, "u2"}

CompleteTasks(n1, n2) ==
  <<[creator_id |-> Creator, status |-> "in_progress", max_volunteers |-> MaxVolunteersInput,
     current_volunteers |-> n1, time_needed |-> "30min"],
    [creator_id |-> "u2", status |-> "in_progress", max_volunteers |-> MaxVolunteersInput,
     current_volunteers |-> n2, time_needed |-> "half_day"]>>

\* The task a session has created.
OwnTask(s) == IF s = Creator THEN 1 ELSE 2

AcceptedSets == {A \in SUBSET Users : Cardinality(A) \in 1 .. MaxVolunteersInput}

InitComplete ==
  /\ \E A1, A2 \in AcceptedSets :
       /\ tasks = CompleteTasks(Cardinality(A1), Cardinality(A2))
       /\ task_volunteers = SetToBag({VolRow(1, v, "accepted") : v \in A1}
                                     \cup {VolRow(2, v, "accepted") : v \in A2})
  /\ profiles = NoStats
  /\ feedOpen = [s \in Sessions |-> s \in CompleteSessions]
  /\ localTasks = [s \in Sessions |-> IF s \in CompleteSessions THEN VisibleTasks ELSE << >>]
  /\ tasksInflight = [s \in Sessions |-> EmptyBag]
  /\ loading = [s \in Sessions |-> ~feedOpen[s]]
  /\ hookTask = [s \in Sessions |-> NoTask]
  /\ volunteers = [s \in Sessions |-> EmptyBag]
  /\ userVolunteerStatus = [s \in Sessions |-> "null"]
  /\ volInflight = [s \in Sessions |-> EmptyBag]
  /\ ChatInit
  /\ op = [s \in Sessions |-> Idle]
  /\ ret = NoReturn

NextComplete ==
  \E s \in CompleteSessions :
    \/ FetchTasksRead(s)
    \/ FetchTasksLand(s)
    \/ CompleteTask(s, OwnTask(s))
    \/ CompleteTaskSelect(s)
    \/ CompleteTaskReadProfile(s)
    \/ CompleteTaskWriteProfile(s)

SpecComplete == InitComplete /\ [][NextComplete]_vars

\* The chat of one task: the store holds one task of the creator on which a
\* volunteer is accepted, and no message; the creator, the volunteer and a
\* user who takes no part in the task open the chat and send messages.
ChatSessions == {Creator, "u2", "u3"}

InitChat ==
  /\ tasks = OneTask
  /\ task_volunteers = SetToBag({VolRow(1, "u2", "accepted")})
  /\ profiles = NoStats
  /\ ClientInit

NextChat ==
  \E s \in ChatSessions :
    \/ MountChat(s, 1)
    \/ FetchMessagesRead(s)
    \/ FetchMessagesLand(s)
    \/ \E messageText \in MessageTexts : SendMessage(s, messageText)
    \/ MessageEvent(s)
    \/ MessageAppend(s)

SpecChat == InitChat /\ [][NextChat]_vars

\* The distance of the listed tasks as a function of its inputs: a caller
\* with any profile location, set or not, has read any list of up to
\* MaxFeedTasks tasks.
InitLocate ==
  /\ tasks = << >>
  /\ task_volunteers = EmptyBag
  /\ profiles = NoStats
  /\ feedOpen = [s \in Sessions |-> FALSE]
  /\ localTasks = [s \in Sessions |-> << >>]
  /\ tasksInflight = [s \in Sessions |-> EmptyBag]
  /\ loading = [s \in Sessions |-> TRUE]
  /\ hookTask = [s \in Sessions |-> NoTask]
  /\ volunteers = [s \in Sessions |-> EmptyBag]
  /\ userVolunteerStatus = [s \in Sessions |-> "null"]
  /\ volInflight = [s \in Sessions |-> EmptyBag]
  /\ ChatInit
  /\ \E profile \in ProfileLocations, tasksData \in SeqsUpTo(TaskLocations, MaxFeedTasks) :
       op = [s \in Sessions |-> IF s = "u2" THEN Annotating(profile, tasksData) ELSE Idle]
  /\ ret = NoReturn

NextLocate == \E s \in Sessions : AnnotateTasks(s)

SpecLocate == InitLocate /\ [][NextLocate]_vars

----------------------------------------------------------------------------
(***************************************************************************)
(* Properties                                                              *)
(***************************************************************************)

\* The stored status of the pair (t, v) before and after a step.
Before(t, v) == StatusOf(task_volunteers, t, v)
After(t, v) == StatusOf(task_volunteers', t, v)

\* C1: in every reachable state each task's stored current_volunteers is at
\* most its max_volunteers.
C1_CountWithinMax ==
  \A t \in DOMAIN tasks : tasks[t].current_volunteers <= tasks[t].max_volunteers

\* The forward order of task statuses: open, then in_progress, then the final
\* completed and cancelled.
StatusRank(st) ==
  CASE st = "open" -> 0
    [] st = "in_progress" -> 1
    [] st \in {"completed", "cancelled"} -> 2

\* C2: a task's stored status only moves forward: no step takes it from
\* in_progress back to open, and no step takes it out of completed or cancelled.
C2_StatusOnlyForward ==
  [][\A t \in DOMAIN tasks :
       LET a == tasks[t].status
           b == tasks'[t].status
       IN  a = b \/ (StatusRank(a) < StatusRank(b))]_vars
\* The pairs other than (t, v) keep their stored status across the step.
OthersKept(t, v) ==
  \A t2 \in TaskIds, v2 \in Users : <<t2, v2>> # <<t, v>> => After(t2, v2) = Before(t2, v2)

\* A step of one of the four operations of the volunteer hook that write rows.
VolunteerHookStep ==
  \E s \in Sessions :
    \/ OfferToHelp(s)
    \/ WithdrawOffer(s)
    \/ \E v \in Users : AcceptVolunteer(s, v) \/ RejectVolunteer(s, v)

\* C3 as stated: the volunteer hook operations change the status of a pair
\* only by none->pending, pending->accepted, pending->rejected, pending->none
\* and accepted->none.
C3_OnlyListedChanges ==
  [][(task_volunteers' # task_volunteers /\ VolunteerHookStep) =>
       \A t \in TaskIds, v \in Users :
         \/ After(t, v) = Before(t, v)
         \/ <<Before(t, v), After(t, v)>> \in
              {<<"none", "pending">>, <<"pending", "accepted">>, <<"pending", "rejected">>,
               <<"pending", "none">>, <<"accepted", "none">>}]_vars

\* C3, amended: offerToHelp changes only the caller's pair and only from none
\* to pending; acceptVolunteer(v) and rejectVolunteer(v) change only the pair of
\* v, only when it has a row, from whatever status it has to accepted and to
\* rejected; withdrawOffer changes only the caller's pair, from whatever status
\* it has to none.
C3_ChangesPerOperation ==
  [][(task_volunteers' # task_volunteers /\ VolunteerHookStep) =>
       \A s \in Sessions :
         LET t == hookTask[s]
         IN  /\ OfferToHelp(s) =>
                  /\ OthersKept(t, s)
                  /\ Before(t, s) = "none" /\ After(t, s) = "pending"
             /\ WithdrawOffer(s) =>
                  /\ OthersKept(t, s)
                  /\ Before(t, s) # "none" /\ After(t, s) = "none"
             /\ \A v \in Users :
                  /\ AcceptVolunteer(s, v) =>
                       /\ OthersKept(t, v)
                       /\ Before(t, v) # "none" /\ After(t, v) = "accepted"
                  /\ RejectVolunteer(s, v) =>
                       /\ OthersKept(t, v)
                       /\ Before(t, v) # "none" /\ After(t, v) = "rejected"]_vars

\* A row stored as rejected that the creator's list still shows as accepted:
\* rejectVolunteer has acted on an accepted row.
C3_Witness ==
  \E t \in DOMAIN tasks, v \in Volunteers :
    /\ hookTask[Creator] = t
    /\ StatusOf(volunteers[Creator], t, v) = "accepted"
    /\ StatusOf(task_volunteers, t, v) = "rejected"

\* C4: offerToHelp by a caller without a row for the task either fails and
\* changes nothing or stores one pending row and sets the caller's local status
\* to pending; by a caller who holds a row it returns an error and leaves the
\* stored rows and the local status as they were.
C4_OfferToHelp ==
  [][\A s \in Sessions :
       (ret'.fn = "offerToHelp" /\ OfferToHelp(s)) =>
         LET t == hookTask[s]
         IN  IF Before(t, s) = "none"
             THEN \/ /\ ret' = Returned("offerToHelp", FALSE)
                     /\ After(t, s) = "pending"
                     /\ RowCount(task_volunteers', t, s) = 1
                     /\ userVolunteerStatus'[s] = "pending"
                  \/ /\ ret' = Returned("offerToHelp", TRUE)
                     /\ task_volunteers' = task_volunteers
                     /\ userVolunteerStatus' = userVolunteerStatus
             ELSE /\ ret' = Returned("offerToHelp", TRUE)
                  /\ task_volunteers' = task_volunteers
                  /\ userVolunteerStatus' = userVolunteerStatus]_vars

\* offerToHelp has returned an error to a caller whose row is accepted and
\* whose local status shows it.
C4_Witness ==
  \E s \in Volunteers :
    /\ hookTask[s] # NoTask
    /\ ret = Returned("offerToHelp", TRUE)
    /\ userVolunteerStatus[s] = "accepted"
    /\ StatusOf(volunteers[s], hookTask[s], s) = "accepted"
    /\ StatusOf(task_volunteers, hookTask[s], s) = "accepted"

\* C5: no step that writes task_volunteers (the table starts empty) leaves a
\* (task, volunteer) pair with more than one row, and an offerToHelp
\* that returns without error, also one that follows a withdrawal, leaves the
\* caller's pair with exactly one row, pending.
C5_OneRowPerPair ==
  [][task_volunteers' # task_volunteers =>
     /\ \A t \in TaskIds, v \in Users : RowCount(task_volunteers', t, v) <= 1
     /\ \A s \in Sessions :
          (ret' = Returned("offerToHelp", FALSE) /\ OfferToHelp(s)) =>
             /\ RowCount(task_volunteers', hookTask[s], s) = 1
             /\ After(hookTask[s], s) = "pending"]_vars

\* The caller's list still shows the row that acceptTask inserted, the last
\* call to return was an offerToHelp without error, and the stored row is
\* pending: the caller has withdrawn and offered again.
C5_Witness ==
  \E s \in Volunteers :
    /\ hookTask[s] # NoTask
    /\ StatusOf(volunteers[s], hookTask[s], s) = "active"
    /\ ret = Returned("offerToHelp", FALSE)
    /\ RowCount(task_volunteers, hookTask[s], s) = 1
    /\ StatusOf(task_volunteers, hookTask[s], s) = "pending"

\* C6: a rejectVolunteer(v) that returns without error on a row that
\* acceptVolunteer(v) had set to accepted leaves the stored row rejected, and
\* once every refetch of the creator's hook has landed after it, acceptedCount
\* does not count a volunteer whose stored row is rejected.
C6_RejectAfterAccept ==
  [][LET t == hookTask[Creator]
     IN  /\ \A v \in Volunteers :
              (ret' = Returned("rejectVolunteer", FALSE) /\ Before(t, v) = "accepted"
                 /\ RejectVolunteer(Creator, v))
              => After(t, v) = "rejected"
         /\ (t # NoTask /\ hookTask'[Creator] = t
               /\ ret' = Returned("rejectVolunteer", FALSE)
               /\ volInflight'[Creator] = EmptyBag)
            => \A v \in Volunteers :
                 After(t, v) = "rejected" => ~BagIn(VolRow(t, v, "accepted"), volunteers'[Creator])]_vars

\* C7: when acceptVolunteer returns without error, the stored
\* current_volunteers of the task equals the number of its rows stored as
\* accepted, and the stored status of the task is in_progress.
C7_CountEqualsAcceptedRows ==
  [][\A s \in Sessions :
       (op[s].pc = "av_task" /\ ret' = Returned("acceptVolunteer", FALSE)) =>
         /\ tasks'[op[s].t].current_volunteers = StatusCount(task_volunteers', op[s].t, "accepted")
         /\ tasks'[op[s].t].status = "in_progress"]_vars

\* C8: a step that changes or removes a pending row is a step of
\* acceptVolunteer or rejectVolunteer for the volunteer of the row, on the task
\* of the row, or of withdrawOffer by that volunteer on that task.
C8_PendingStaysPending ==
  [][task_volunteers' # task_volunteers =>
       \A t \in TaskIds, v \in Users :
         (Before(t, v) = "pending" /\ After(t, v) # "pending") =>
            \/ \E s \in Sessions :
                 hookTask[s] = t /\ (AcceptVolunteer(s, v) \/ RejectVolunteer(s, v))
            \/ hookTask[v] = t /\ WithdrawOffer(v)]_vars

\* An offer is still pending on a task that is completed, with another
\* volunteer accepted and current_volunteers at max_volunteers or above.
C8_Witness ==
  \E t \in DOMAIN tasks, v \in Volunteers, w \in Volunteers :
    /\ StatusOf(task_volunteers, t, v) = "pending"
    /\ StatusOf(task_volunteers, t, w) = "accepted"
    /\ tasks[t].status = "completed"
    /\ tasks[t].current_volunteers >= tasks[t].max_volunteers

\* C9: each profile write of completeTask, made for an accepted volunteer of
\* the task, raises that volunteer's tasks_completed by exactly 1 and leaves the
\* tasks_completed of every other profile as it was.
C9_TasksCompletedPlusOne ==
  [][\A s \in Sessions :
       (op[s].pc = "ct_write" /\ op'[s].pc # "ct_write") =>
         \A u \in Users :
           profiles'[u].tasks_completed =
             profiles[u].tasks_completed + (IF u = op[s].v THEN 1 ELSE 0)]_vars

\* C10: each profile write of completeTask adds to the volunteer's
\* total_volunteer_hours the table value of the stored time_needed of the task,
\* whether or not the caller's tasks state holds the task.
C10_HoursFromStoredTimeNeeded ==
  [][\A s \in Sessions :
       (op[s].pc = "ct_write" /\ op'[s].pc # "ct_write" /\ op[s].t \in DOMAIN tasks) =>
         profiles'[op[s].v].total_volunteer_hours =
           profiles[op[s].v].total_volunteer_hours + hoursMap[tasks[op[s].t].time_needed]]_vars

\* The requested skills of a task that the user has, counted per entry.
SkillsMatched(userSkills, task) ==
  Cardinality({k \in DOMAIN task.skills_needed : task.skills_needed[k] \in userSkills})

\* C11: the score of a task is 2 times the number of its requested skills the
\* user has, plus 2 - distance / 5 when the distance is known and under 5 miles,
\* plus 1 when its urgency is high; two listed tasks that differ only in
\* urgency, high against not high, differ in score by exactly 1 (scores in
\* fifths of a point).
C11_ScoreFormula ==
  \A s \in Sessions :
    Rendered(s) =>
      LET skills == op[s].skills
          list == op[s].filteredTasks
      IN /\ \A i \in DOMAIN list :
              Score(skills, list[i]) =
                2 * ScoreUnit * SkillsMatched(skills, list[i])
                + (IF list[i].distance \in 0 .. 4 THEN 2 * ScoreUnit - list[i].distance ELSE 0)
                + (IF list[i].urgency = "high" THEN ScoreUnit ELSE 0)
         /\ \A i, j \in DOMAIN list :
              /\ list[i].urgency = "high"
              /\ list[j].urgency # "high"
              /\ list[i] = [list[j] EXCEPT !.urgency = "high"]
              => Score(skills, list[i]) - Score(skills, list[j]) = ScoreUnit

\* A user with a skill renders two tasks that differ only in urgency, both
\* asking for the skill twice over and 4 miles away; the high one is the match.
C11_Witness ==
  /\ Rendered(Creator)
  /\ op[Creator].skills = {"cooking"}
  /\ Len(op[Creator].filteredTasks) = 2
  /\ op[Creator].filteredTasks[1] =
       [skills_needed |-> <<"cooking", "driving">>, distance |-> 4, urgency |-> "medium"]
  /\ op[Creator].filteredTasks[2] =
       [skills_needed |-> <<"cooking", "driving">>, distance |-> 4, urgency |-> "high"]
  /\ Score(op[Creator].skills, op[Creator].filteredTasks[2]) = 21
  /\ ret = [fn |-> "bestMatchId", error |-> FALSE, value |-> 2]

\* The greatest score of a list of tasks, 0 for the empty list.
MaxScore(skills, list) ==
  IF list = << >>
  THEN 0
  ELSE CHOOSE m \in {Score(skills, list[i]) : i \in DOMAIN list} :
         \A i \in DOMAIN list : Score(skills, list[i]) <= m

\* C12: for every user profile and every list of tasks, the best match is the
\* first task of the list with the greatest score when that score is above 0,
\* and it is null exactly when no task scores above 0.
C12_FirstMaximum ==
  \A s \in Sessions :
    Rendered(s) =>
      LET skills == op[s].skills
          list == op[s].filteredTasks
          m == MaxScore(skills, list)
      IN /\ ret.value = NoTask <=> m = 0
         /\ m > 0 =>
              /\ ret.value \in DOMAIN list
              /\ Score(skills, list[ret.value]) = m
              /\ \A i \in 1 .. ret.value - 1 : Score(skills, list[i]) < m

\* The list holds exactly the stored tasks that are open or in progress, each
\* as stored, the later created first.
ListsStoredVisible(list) ==
  /\ \A i \in DOMAIN list :
       /\ list[i].id \in DOMAIN tasks
       /\ list[i] = TaskRecord(list[i].id)
       /\ list[i].status \in {"open", "in_progress"}
  /\ \A t \in DOMAIN tasks :
       tasks[t].status \in {"open", "in_progress"} => \E i \in DOMAIN list : list[i].id = t
  /\ \A i, j \in DOMAIN list : i < j => list[i].id > list[j].id

\* C13: the list a fetchTasks call reads is exactly the stored tasks whose
\* status is open or in_progress at the time of the read, ordered by created_at
\* descending (empty when there is none); when the call lands the local list is
\* that list, so the local list never holds a task that was completed or
\* cancelled as of the read and is always in that order.
C13_FetchedList ==
  [][\A s \in Sessions :
       tasksInflight'[s] # tasksInflight[s] =>
         /\ FetchTasksRead(s) =>
              \E f \in DOMAIN tasksInflight'[s] :
                /\ f.read
                /\ ListsStoredVisible(f.data)
                /\ tasksInflight'[s] = (tasksInflight[s] (-) SetToBag({Sent})) (+) SetToBag({f})
         /\ FetchTasksLand(s) =>
              /\ \E f \in DOMAIN tasksInflight[s] : f.read /\ localTasks'[s] = f.data
              /\ \A i \in DOMAIN localTasks'[s] :
                   localTasks'[s][i].status \in {"open", "in_progress"}
              /\ \A i, j \in DOMAIN localTasks'[s] :
                   i < j => localTasks'[s][i].id > localTasks'[s][j].id]_vars

\* A fetch of the volunteer has landed with two tasks, the later created
\* first, while nothing is in flight in that session.
C13_Witness ==
  /\ tasksInflight["u2"] = EmptyBag
  /\ Len(localTasks["u2"]) = 2
  /\ localTasks["u2"][1].id = 2
  /\ localTasks["u2"][2].id = 1
  /\ localTasks["u2"] = VisibleTasks

\* The taskData of the model, whatever it holds under creator_id.
TaskDataInputs ==
  {TaskData(mv, tn, cid) :
     mv \in 1 .. MaxVolunteersInput, tn \in TimeNeededInput, cid \in Users \cup {NoUser}}

\* C14: createTask called in a session without an authenticated user returns
\* an error, inserts nothing and issues no refetch; called with a user it
\* stores at most one new task, whose creator_id is the caller's id whatever
\* the supplied data holds, and it issues a refetch exactly when the insert
\* succeeded, returning an error otherwise.
C14_CreateTask ==
  [][\A s \in Sessions :
       (ret'.fn = "createTask" /\ \E taskData \in TaskDataInputs : CreateTask(s, taskData)) =>
         /\ AuthUid(s) = NoUser =>
              ret'.error /\ tasks' = tasks /\ tasksInflight' = tasksInflight
         /\ tasks' # tasks =>
              /\ Len(tasks') = Len(tasks) + 1
              /\ SubSeq(tasks', 1, Len(tasks)) = tasks
              /\ tasks'[Len(tasks')].creator_id = AuthUid(s)
         /\ tasksInflight' # tasksInflight <=> tasks' # tasks
         /\ ret'.error <=> tasks' = tasks
         /\ task_volunteers' = task_volunteers
         /\ localTasks' = localTasks]_vars

\* createTask of the volunteer has just returned without an error: the store
\* holds a task whose creator is the volunteer, and the volunteer's refetch is
\* on its way.
C14_Witness ==
  /\ ret = Returned("createTask", FALSE)
  /\ Len(tasks) = 1
  /\ tasks[1].creator_id = "u2"
  /\ tasks[1].status = "open"
  /\ BagCardinality(tasksInflight["u2"]) = 1

\* C15: whenever a mounted instance has no fetchTasks call in flight (every
\* change of a task has started one in it, so none of its refetches is still
\* to land and no change has happened since), its local list equals the stored
\* open and in_progress tasks.
C15_ListsConverge ==
  \A s \in Sessions :
    (feedOpen[s] /\ tasksInflight[s] = EmptyBag) => localTasks[s] = VisibleTasks

\* The functions of the claim.
WritingFunctions ==
  {"createTask", "updateTask", "offerToHelp", "acceptVolunteer", "rejectVolunteer",
   "withdrawOffer"}

\* C16: when createTask, updateTask, offerToHelp, acceptVolunteer,
\* rejectVolunteer or withdrawOffer returns an error, the stored tables, the
\* fetches in flight (no refetch), the task list, the volunteer list and
\* userVolunteerStatus are as before the call and no further write of the
\* function is pending; and a call of one of them that returns without an
\* error has issued a refetch.
C16_ErrorLeavesState ==
  [][(ret' # ret /\ ret'.fn \in WritingFunctions) =>
       /\ ret'.error => UNCHANGED <<dbVars, tasksHookVars, volHookVars, op>>
       /\ ~ret'.error => (tasksInflight' # tasksInflight \/ volInflight' # volInflight)]_vars

\* updateTask of the creator has just returned the error of the platform: the
\* stored task is open as before, the creator's list is the list of the store
\* and no fetch is in flight.
C16_Witness ==
  /\ ret = Returned("updateTask", TRUE)
  /\ tasks = OneTask
  /\ localTasks[Creator] = VisibleTasks
  /\ tasksInflight[Creator] = EmptyBag
  /\ IsIdle(Creator)

\* C17: an acceptTask call that found the task in its caller's list, whose
\* copy of the count was the stored one, and that returns without an error has
\* stored one row for the caller, has raised the stored current_volunteers by
\* exactly 1 and has set the status to in_progress exactly when the new count
\* reaches max_volunteers, leaving it as it was otherwise.
C17_AcceptTaskRaisesCount ==
  [][\A s \in Sessions :
       (/\ op[s].pc = "at_task"
        /\ AcceptTaskUpdate(s)
        /\ op[s].t \in DOMAIN tasks
        /\ op[s].n = tasks[op[s].t].current_volunteers + 1) =>
         LET t == op[s].t
         IN /\ ret' = Returned("acceptTask", FALSE)
            /\ RowCount(task_volunteers', t, AuthUid(s)) = 1
            /\ tasks'[t].current_volunteers = tasks[t].current_volunteers + 1
            /\ tasks'[t].status =
                 IF tasks'[t].current_volunteers >= tasks[t].max_volunteers
                 THEN "in_progress" ELSE tasks[t].status]_vars

\* C18: acceptTask writes the count it computed from its caller's copy of the
\* task before the insert, or nothing at all, so that updates are lost: with
\* the rows of several sessions stored for a task, its current_volunteers has
\* gone up by no more than 1.
C18_LostUpdate ==
  [][\A s \in Sessions :
       (op[s].pc = "at_task" /\ AcceptTaskUpdate(s) /\ op[s].t \in DOMAIN tasks) =>
         LET t == op[s].t
         IN /\ tasks'[t].current_volunteers \in {tasks[t].current_volunteers, op[s].n}
            /\ tasks'[t].current_volunteers <= 1
            /\ task_volunteers' = task_volunteers]_vars

\* Two calls of acceptTask on the same task have interleaved: the rows of the
\* creator and of the volunteer are stored, the creator's update has set
\* current_volunteers to 1, and the volunteer's call, which computed the same
\* count 1 from its own copy, is still before its update.
C18_Witness ==
  \E t \in DOMAIN tasks :
    /\ RowCount(task_volunteers, t, Creator) = 1
    /\ RowCount(task_volunteers, t, "u2") = 1
    /\ tasks[t].creator_id = Creator
    /\ tasks[t].current_volunteers = 1
    /\ op["u2"] = [pc |-> "at_task", t |-> t, n |-> 1, st |-> "in_progress"]
    /\ ret = Returned("acceptTask", FALSE)

\* C19: the distance of a point to itself is 0, and the distance from a first
\* point to a second equals the distance from the second to the first.
C19_DistanceZeroAndSymmetric ==
  \A s \in Sessions :
    Located(s) =>
      /\ (op[s].lat1 = op[s].lat2 /\ op[s].lng1 = op[s].lng2) => ret.value = 0
      /\ ret.value = calculateDistance(op[s].lat2, op[s].lng2, op[s].lat1, op[s].lng1)

\* The distance between a point on the equator and a point at 60 degrees
\* north, 120 degrees of longitude apart, is computed and is not 0.
C19_Witness ==
  /\ Located(Creator)
  /\ op[Creator].lat1 = 0 /\ op[Creator].lng1 = -60
  /\ op[Creator].lat2 = 60 /\ op[Creator].lng2 = 60
  /\ ret.fn = "calculateDistance"
  /\ ret.value > 0

\* C20: rejectVolunteer(v) changes nothing but the status of v's row for the
\* hook's task, which becomes rejected: the stored tasks (current_volunteers
\* and status included), the profiles, every other row and the number of rows
\* are as before, also when v's row was accepted.
C20_RejectChangesOneRow ==
  [][(ret'.fn = "rejectVolunteer" /\ (ret' # ret \/ volInflight' # volInflight)) =>
     \A s \in Sessions, v \in Users :
       RejectVolunteer(s, v) =>
         /\ tasks' = tasks
         /\ profiles' = profiles
         /\ OthersKept(hookTask[s], v)
         /\ After(hookTask[s], v) \in {Before(hookTask[s], v), "rejected"}
         /\ Before(hookTask[s], v) = "none" => After(hookTask[s], v) = "none"
         /\ BagCardinality(task_volunteers') = BagCardinality(task_volunteers)]_vars

\* rejectVolunteer has just returned without an error for a volunteer whose row
\* was accepted: the row is rejected, the task still counts the volunteer and
\* is still in progress.
C20_Witness ==
  \E t \in DOMAIN tasks, v \in Volunteers :
    /\ ret = Returned("rejectVolunteer", FALSE)
    /\ hookTask[Creator] = t
    /\ StatusOf(volunteers[Creator], t, v) = "accepted"
    /\ StatusOf(task_volunteers, t, v) = "rejected"
    /\ tasks[t].current_volunteers = 1
    /\ tasks[t].status = "in_progress"

\* C21: a withdrawOffer that a signed-in caller with a task id gets through
\* leaves the caller without a row for the hook's task, whatever status the row
\* had, and with the local status null, while the tasks (current_volunteers
\* and status included), the profiles and every other row stay as they were;
\* without a user or without a task id it returns an error and the rows and
\* the local status stay as they were.
C21_WithdrawOffer ==
  [][(ret'.fn = "withdrawOffer" /\ (ret' # ret \/ volInflight' # volInflight)) =>
     \A s \in Sessions :
       WithdrawOffer(s) =>
         /\ tasks' = tasks
         /\ profiles' = profiles
         /\ IF AuthUid(s) = NoUser \/ hookTask[s] = NoTask
            THEN /\ ret' = Returned("withdrawOffer", TRUE)
                 /\ task_volunteers' = task_volunteers
                 /\ userVolunteerStatus' = userVolunteerStatus
            ELSE \/ /\ ret' = Returned("withdrawOffer", FALSE)
                    /\ After(hookTask[s], s) = "none"
                    /\ OthersKept(hookTask[s], s)
                    /\ userVolunteerStatus'[s] = "null"
                 \/ /\ ret' = Returned("withdrawOffer", TRUE)
                    /\ task_volunteers' = task_volunteers
                    /\ userVolunteerStatus' = userVolunteerStatus]_vars

\* A volunteer whose row was accepted has withdrawn: the list of the modal
\* still shows the accepted row, the store holds no row of the volunteer, the
\* local status is null, and the other volunteer's accepted row and the task's
\* count of two are still there.
C21_Witness ==
  /\ ret = Returned("withdrawOffer", FALSE)
  /\ StatusOf(volunteers["u2"], 1, "u2") = "accepted"
  /\ StatusOf(task_volunteers, 1, "u2") = "none"
  /\ userVolunteerStatus["u2"] = "null"
  /\ StatusOf(task_volunteers, 1, "u3") = "accepted"
  /\ tasks[1].current_volunteers = 2

\* The step of a completeTask call that is past its task update.
CompleteTaskLaterStep(s) ==
  /\ op[s].pc \in {"ct_select", "ct_read", "ct_write"}
  /\ op'[s] # op[s]

\* C22: a completeTask whose task update fails returns the error with the
\* tasks and the profiles as they were and does nothing more; once the update
\* is through, every later step of the call leaves the tasks as they are (the
\* creator's task stays completed), a profile read changes no profile, a
\* profile update changes at most the profile of the volunteer it is for, by
\* one task and the hours of the call, and the step that ends the call returns
\* error null, whichever reads and updates have failed.
C22_NoCompensation ==
  [][(op' # op \/ ret' # ret) =>
     \A s \in Sessions :
       /\ (ret' # ret /\ ret' = Returned("completeTask", TRUE)) =>
            /\ op' = op
            /\ tasks' = tasks
            /\ profiles' = profiles
       /\ CompleteTaskLaterStep(s) =>
            /\ tasks' = tasks
            /\ tasks[op[s].t].creator_id = AuthUid(s) => tasks'[op[s].t].status = "completed"
            /\ op[s].pc # "ct_write" => profiles' = profiles
            /\ op[s].pc = "ct_write" =>
                 /\ \A u \in Users \ {op[s].v} : profiles'[u] = profiles[u]
                 /\ profiles'[op[s].v] \in
                      {profiles[op[s].v],
                       [tasks_completed |-> profiles[op[s].v].tasks_completed + 1,
                        total_volunteer_hours |->
                          profiles[op[s].v].total_volunteer_hours + op[s].hours]}
            /\ op'[s] = Idle => ret' = Returned("completeTask", FALSE)]_vars

\* completeTask has returned error null on a task with two accepted
\* volunteers: the task is completed, the stats of one volunteer are raised
\* and those of the other are as they were.
C22_Witness ==
  /\ ret = Returned("completeTask", FALSE)
  /\ \A s \in Sessions : IsIdle(s)
  /\ tasks[1].status = "completed"
  /\ AcceptedVolunteers(1) = {Creator, "u3"}
  /\ profiles[Creator] = [tasks_completed |-> 1, total_volunteer_hours |-> hoursMap["30min"]]
  /\ profiles["u3"] = [tasks_completed |-> 0, total_volunteer_hours |-> 0]

\* C23: an acceptTask whose insert fails returns the error with the tasks and
\* the rows as they were and does nothing more.  Once the row is inserted, a
\* call that finds no such task in its list returns error null at once with the
\* tasks as they were, and a call that goes on to the task update returns error
\* null whatever the update did: the caller's row stays, and where the update
\* failed or matched no row the task keeps its count and status.
C23_AcceptTaskTwoSteps ==
  [][(op' # op \/ ret' # ret) =>
     \A s \in Sessions :
       /\ (IsIdle(s) /\ ret' # ret /\ ret' = Returned("acceptTask", TRUE)) =>
            /\ op' = op
            /\ tasks' = tasks
            /\ task_volunteers' = task_volunteers
       /\ \A t \in FeedTaskIds :
            (task_volunteers' # task_volunteers /\ AcceptTask(s, t)) =>
               /\ tasks' = tasks
               /\ After(t, s) = DefaultVolStatus
               /\ IF HasTask(localTasks[s], t)
                  THEN op'[s].pc = "at_task" /\ ret' = NoReturn
                  ELSE op'[s] = Idle /\ ret' = Returned("acceptTask", FALSE)
       /\ (op[s].pc = "at_task" /\ op'[s] # op[s]) =>
            /\ ret' = Returned("acceptTask", FALSE)
            /\ op'[s] = Idle
            /\ task_volunteers' = task_volunteers
            /\ RowCount(task_volunteers', op[s].t, s) = 1
            /\ \/ tasks' = tasks
               \/ /\ TaskUpdatePolicy(AuthUid(s), op[s].t)
                  /\ tasks' = [tasks EXCEPT ![op[s].t].current_volunteers = op[s].n,
                                            ![op[s].t].status = op[s].st]]_vars

\* acceptTask has returned error null to a volunteer whose list did not hold
\* the task: the row is stored, the task counts no volunteer and is open, and
\* no call is running.
C23_Witness ==
  \E t \in DOMAIN tasks :
    /\ ret = Returned("acceptTask", FALSE)
    /\ \A s \in Sessions : IsIdle(s)
    /\ ~HasTask(localTasks["u2"], t)
    /\ StatusOf(task_volunteers, t, "u2") = DefaultVolStatus
    /\ StatusOf(task_volunteers, t, Creator) = "none"
    /\ tasks[t].current_volunteers = 0
    /\ tasks[t].status = "open"

\* C24: in the list fetchTasks sets, every task carries a distance when the
\* caller's profile has both a latitude and a longitude that are not null, 0
\* included, and no task carries one otherwise.
C24_DistanceWhenLocated ==
  \A s \in Sessions :
    Annotated(s) =>
      \A i \in DOMAIN ret.value :
        ret.value[i].distance # NoDistance
          <=> (/\ op[s].profile.location_lat # NoCoordinate
               /\ op[s].profile.location_lng # NoCoordinate)

\* C25: every stored row of task_volunteers has a status among pending,
\* accepted and rejected, whichever operation stored or updated it.
C25_RowStatusInEnum ==
  \A r \in DOMAIN task_volunteers : r.status \in {"pending", "accepted", "rejected"}

\* C26: in a mounted useTasks instance, loading is true in every state in
\* which a fetchTasks call of the instance is outstanding, whatever started
\* the calls and however they overlap, and false in every state in which none
\* is.
C26_LoadingWhileOutstanding ==
  \A s \in Sessions :
    feedOpen[s] => (loading[s] <=> tasksInflight[s] # EmptyBag)

\* C27: in the chat of a participant, once the fetchMessages of the mount has
\* been applied and every INSERT event has been handled, the list holds the
\* stored messages of the task, each one once, in the order of created_at.
C27_ChatListComplete ==
  \A s \in Sessions :
    (/\ chatTask[s] # NoTask
     /\ IsParticipant(AuthUid(s), chatTask[s])
     /\ messagesInflight[s] = EmptyBag
     /\ messageEvents[s] = << >>
     /\ messageHandlers[s] = {}) =>
       messages[s] = MessagesOfTask(chatTask[s])

\* The completed tasks on which v is an accepted volunteer.
CompletedFor(v) ==
  {t \in DOMAIN tasks : tasks[t].status = "completed" /\ v \in AcceptedVolunteers(t)}

RECURSIVE HoursOfTasks(_)
\* The table values of the time_needed of the tasks of a set, added up.
HoursOfTasks(T) ==
  IF T = {} THEN 0
  ELSE LET t == CHOOSE x \in T : TRUE
       IN  hoursMap[tasks[t].time_needed] + HoursOfTasks(T \ {t})

\* C28: whenever no completeTask call is running, whatever number of calls
\* each task has had, every user's tasks_completed is higher than at the start
\* by one for each completed task the user is an accepted volunteer of, and
\* total_volunteer_hours by the table value of each such task.
C28_CountedOncePerTask ==
  (\A s \in Sessions : IsIdle(s)) =>
    \A v \in Users :
      /\ profiles[v].tasks_completed = Cardinality(CompletedFor(v))
      /\ profiles[v].total_volunteer_hours = HoursOfTasks(CompletedFor(v))

\* C29: when the completeTask calls for two different tasks have both
\* returned, however their profile reads and updates were interleaved, every
\* user who is an accepted volunteer of both tasks has tasks_completed higher by
\* 2 than at the start and total_volunteer_hours higher by the sum of the two
\* table values.
C29_ConcurrentCompletions ==
  (/\ \A s \in Sessions : IsIdle(s)
   /\ ret = Returned("completeTask", FALSE)
   /\ \A t \in FeedTaskIds : t \in DOMAIN tasks /\ tasks[t].status = "completed") =>
     \A v \in AcceptedVolunteers(1) \cap AcceptedVolunteers(2) :
       /\ profiles[v].tasks_completed = 2
       /\ profiles[v].total_volunteer_hours
            = hoursMap[tasks[1].time_needed] + hoursMap[tasks[2].time_needed]

\* C30: in every state in which no session is inside a hook function, the
\* stored current_volunteers of every task equals the number of its rows
\* stored as accepted.
C30_CountMatchesAcceptedRows ==
  (\A s \in Sessions : IsIdle(s)) =>
    \A t \in DOMAIN tasks :
      tasks[t].current_volunteers = StatusCount(task_volunteers, t, "accepted")

=============================================================================
